---- MODULE Spec2Model ----
(***************************************************************************)
(* Verification model of the trade-inquiry application's order-number      *)
(* allocator (models/order.py), order creation and order life cycle        *)
(* (routes/order.py), quote submission (routes/supplier_portal.py) and     *)
(* the supplier webhook notifier (routes/order.py).                        *)
(*                                                                         *)
(* Strings are sequences of one-character strings, so that len(), slices,  *)
(* startswith(), isdigit(), int() and the f-string formats are computed    *)
(* and not assumed.                                                        *)
(***************************************************************************)
EXTENDS Integers, Sequences, FiniteSets, TLC

VARIABLES
    today,      \* the calendar day datetime.now() falls on (1..MaxDay)
    ciLike,     \* whether the datastore's LIKE folds case (SQLite) or not
    orders,     \* committed rows of table orders: id -> row
    nextId,     \* next primary key the datastore hands out
    gen,        \* last call of Order.generate_order_no made directly (tests, scripts)
    u,          \* activation record of Order.generate_unique_order_no
    req,        \* activation records of the concurrent create() requests
    issued,     \* history: per day string, the highest sequence committed in this run
    quotes,     \* committed rows of table quotes
    nt,         \* activation record of notify_suppliers
    qc,         \* Order._quote_model_cache, its lock and statistics, and the
                \* activation records of the threads calling _get_quote_model
    sq,         \* activation records of the concurrent submit_quote() requests
    suppliers,  \* committed rows of table suppliers: id -> row
    cu,         \* current_user of the last list request and the rows it was shown
    bk,         \* the backup directory of a BackupManager, its clock and its calls
    users,      \* committed rows of table users: id -> row
    dl          \* _deletion_locks, the clock, and the activation records of
                \* the delete_user() requests

vars == <<today, ciLike, orders, nextId, gen, u, req, issued, quotes, nt, qc,
          sq, suppliers, cu, bk, users, dl>>

----------------------------------------------------------------------------
(* Bounds of the model *)

MaxDay == 2
MaxSeed == 2
MaxStored == 5
NumReq == 2
MaxCreates == 2
MaxSuppliers == 2
NumThreads == 2
MaxCalls == 2
MaxResets == 1

\* rows of table suppliers at most
MaxSupplierRows == 3

\* seconds of the wall clock, contents of the database file, and calls of
\* create_backup
MaxSecond == 2
MaxDbContent == 2
MaxBackups == 3

\* minutes of the clock of the deletion locks
MaxMinute == 6

(* Program constants *)

expected_length == 11
max_retries == 5
notify_max_retries == 3
MaxSeqNo == 999

\* cleanup_stale_deletion_locks(max_age_minutes=5)
max_age_minutes == 5

\* the highest price submit_quote accepts, 9999999999.99; prices are whole
\* numbers of units of 10^8, so that the prices above it start at 100
MaxPrice == 99

----------------------------------------------------------------------------
(* Characters and strings *)

DigitChars == <<"0", "1", "2", "3", "4", "5", "6", "7", "8", "9">>

DecimalDigits == {DigitChars[i] : i \in 1..10}

\* A character str.isdigit() accepts and int() rejects (a superscript digit).
SuperscriptTwo == "sup2"

DigitVal(c) == (CHOOSE i \in 1..10 : DigitChars[i] = c) - 1

\* str(n) for n >= 0
RECURSIVE Dec(_)
Dec(n) == IF n < 10 THEN <<DigitChars[n + 1]>>
          ELSE Dec(n \div 10) \o <<DigitChars[(n % 10) + 1]>>

\* the "0Wd" format: the decimal digits, left-padded with zeros to width w
RECURSIVE ZeroPad(_, _)
ZeroPad(s, w) == IF Len(s) >= w THEN s ELSE ZeroPad(<<"0">> \o s, w)

\* the sequence written without zero padding
Format03d_NoPad(n) == Dec(n)

Format03d(n) == ZeroPad(Dec(n), 3)

Format02d(n) == ZeroPad(Dec(n), 2)

\* s[-3:]
Last3(s) == IF Len(s) <= 3 THEN s ELSE SubSeq(s, Len(s) - 2, Len(s))

\* str.isdigit(): non-empty and every character is a digit character
isdigit(s) == /\ Len(s) > 0
              /\ \A i \in 1..Len(s) : s[i] \in DecimalDigits \cup {SuperscriptTwo}

\* whether int(s) returns (TRUE) or raises ValueError (FALSE)
IntParses(s) == /\ Len(s) > 0
                /\ \A i \in 1..Len(s) : s[i] \in DecimalDigits

\* int(s) of a string of decimal digits
RECURSIVE int(_)
int(s) == IF Len(s) = 0 THEN 0
          ELSE 10 * int(SubSeq(s, 1, Len(s) - 1)) + DigitVal(s[Len(s)])

startswith(s, p) == /\ Len(s) >= Len(p)
                    /\ SubSeq(s, 1, Len(p)) = p

Lower(c) == IF c = "R" THEN "r" ELSE IF c = "X" THEN "x" ELSE c

LowerStr(s) == [i \in 1..Len(s) |-> Lower(s[i])]

\* column LIKE 'prefix%' as the datastore evaluates it
Like(s, prefix, fold) == IF fold THEN startswith(LowerStr(s), LowerStr(prefix))
                         ELSE startswith(s, prefix)

Max(a, b) == IF a >= b THEN a ELSE b

----------------------------------------------------------------------------
(* Dates *)

\* datetime.now().strftime('%y%m%d') on day t: 2024-03-(14+t)
strftime(t) == Format02d(24) \o Format02d(3) \o Format02d(14 + t)

RX == <<"R", "X">>

TEMP == <<"T", "E", "M", "P">>

----------------------------------------------------------------------------
(* Table orders *)

None == 0

\* Order(order_no=...) with the column defaults
OrderRow(no, sups) ==
    [order_no |-> no, status |-> "active", selected_supplier_id |-> None,
     selected_price |-> None, suppliers |-> sups, goods |-> 0,
     business_type |-> "oil"]

OrderNos(tbl) == {tbl[i].order_no : i \in DOMAIN tbl}

\* Order.query.filter(Order.order_no.like(pattern)).all()
QueryLike(tbl, prefix, fold) ==
    {tbl[i].order_no : i \in {j \in DOMAIN tbl : Like(tbl[j].order_no, prefix, fold)}}

\* Order.query.filter_by(order_no=no).first() is not None
Existing(tbl, no) == \E i \in DOMAIN tbl : tbl[i].order_no = no

\* a column without the constraint: every write is accepted
UniqueOk_Unchecked(tbl, no) == TRUE

\* the uniqueness constraint of column order_no, as the datastore checks a write
UniqueOk(tbl, no) == ~Existing(tbl, no)

----------------------------------------------------------------------------
(* Order.generate_order_no / the scan of Order.generate_unique_order_no *)

\* the filter without its length test: a 12-character number would count
CountsForToday_NoLength(no, date_str) ==
    /\ startswith(no, RX \o date_str)
    /\ isdigit(Last3(no))

\* the filter of the scanning loop
CountsForToday(no, date_str) ==
    /\ Len(no) = expected_length
    /\ startswith(no, RX \o date_str)
    /\ isdigit(Last3(no))

\* the loop over today_orders, with its running maximum
RECURSIVE ScanMax(_, _, _)
ScanMax(nos, date_str, max_seq) ==
    IF nos = {} THEN max_seq
    ELSE LET no == CHOOSE x \in nos : TRUE
         IN  ScanMax(nos \ {no}, date_str,
                     IF CountsForToday(no, date_str) /\ IntParses(Last3(no))
                     THEN Max(max_seq, int(Last3(no)))
                     ELSE max_seq)

\* a limit that lets 1000 through
OverCap_OffByOne(new_seq) == new_seq > MaxSeqNo + 1

\* new_seq > 999 raises ValueError
OverCap(new_seq) == new_seq > MaxSeqNo

\* an allocation that goes on from the highest number ever committed
ComputeOrderNo_FromHistory(tbl, now, fold) ==
    LET date_str == strftime(now)
        ever == IF date_str \in DOMAIN issued THEN issued[date_str] ELSE 0
        new_seq == Max(ScanMax(QueryLike(tbl, RX \o date_str, fold), date_str, 0), ever) + 1
    IN  IF OverCap(new_seq)
        THEN [kind |-> "ValueError", order_no |-> <<>>, date_str |-> date_str]
        ELSE [kind |-> "ok", order_no |-> RX \o date_str \o Format03d(new_seq),
              date_str |-> date_str]

\* the scan-and-compute cycle: the number, or the ValueError of the daily limit
ComputeOrderNo(tbl, now, fold) ==
    LET date_str == strftime(now)
        today_orders == QueryLike(tbl, RX \o date_str, fold)
        new_seq == ScanMax(today_orders, date_str, 0) + 1
    IN  IF OverCap(new_seq)
        THEN [kind |-> "ValueError", order_no |-> <<>>, date_str |-> date_str]
        ELSE [kind |-> "ok", order_no |-> RX \o date_str \o Format03d(new_seq),
              date_str |-> date_str]

\* Order.generate_order_no(self): self_id = None raises ValueError first
generate_order_no(self_id, tbl, now, fold) ==
    IF self_id = None
    THEN [kind |-> "ValueError", order_no |-> <<>>, date_str |-> <<>>]
    ELSE ComputeOrderNo(tbl, now, fold)

\* the history after the number no has been committed
Issue(hist, no) ==
    LET d == SubSeq(no, 3, 8)
        n == int(Last3(no))
    IN  IF d \in DOMAIN hist
        THEN [hist EXCEPT ![d] = Max(@, n)]
        ELSE hist @@ (d :> n)

----------------------------------------------------------------------------
(* Initial tables *)

\* order numbers a table can hold before the run starts: well-formed numbers of
\* today (2024-03-15) and of the day before, and numbers the scan must ignore
WellFormedSeeds ==
    { RX \o strftime(1) \o Format03d(1),
      RX \o strftime(1) \o Format03d(998),
      RX \o strftime(1) \o Format03d(999),
      RX \o strftime(0) \o Format03d(5) }

NearCapSeeds ==
    { RX \o strftime(1) \o Format03d(998),
      RX \o strftime(1) \o Format03d(999) }

MalformedSeeds ==
    { RX \o strftime(1) \o <<"0", "1", "2", "3">>,           \* 12 characters
      RX \o strftime(1) \o <<"0", "7">>,                     \* 10 characters
      RX \o strftime(1) \o <<"0", "0", "A">>,                \* no digits at the end
      RX \o strftime(1) \o <<"0", "0", SuperscriptTwo>>,     \* isdigit() but no int()
      <<"r", "x">> \o strftime(1) \o Format03d(7),           \* lower-case prefix
      TEMP \o strftime(1) \o <<"0", "0", "9">> }             \* a placeholder

\* the rows numbered 1..n holding the numbers of the set nos
RECURSIVE TableOf(_)
TableOf(nos) ==
    IF nos = {} THEN <<>>
    ELSE LET no == CHOOSE x \in nos : \A y \in nos : Len(x) >= Len(y)
         IN  TableOf(nos \ {no}) @@ (Cardinality(nos) :> OrderRow(no, {}))

SmallSubsets(S, k) == {T \in SUBSET S : Cardinality(T) <= k}

NoGen == [kind |-> "none", order_no |-> <<>>, date_str |-> <<>>]

UIdle == [pc |-> "idle", attempt |-> 0, order_no |-> <<>>, date_str |-> <<>>,
          cycles |-> 0, waits |-> <<>>]

NtIdle == [pc |-> "idle"]

Thr == 1..NumThreads

\* no reference: _quote_model_cache = None
NoRef == 0

ThIdle == [pc |-> "idle", tmp |-> 0, d |-> 0, ret |-> NoRef,
           c0 |-> NoRef, h0 |-> 0, m0 |-> 0, post_reset |-> FALSE]

\* the class attributes as the module defines them, no thread calling;
\* stats_id tells the dict objects bound to _cache_stats apart; calls, resets,
\* imports and populates are history counters, fresh says that no access has
\* started since the last reset
QcInit ==
    [cache |-> NoRef, lock |-> 0,
     hits |-> 0, misses |-> 0, import_time |-> "None", stats_id |-> 0,
     th |-> [t \in Thr |-> ThIdle],
     calls |-> 0, resets |-> 0, imports |-> 0, populates |-> 0, fresh |-> FALSE]

ReqIdle == [pc |-> "idle", id |-> None, order_no |-> <<>>, sel |-> {}, error |-> "none",
            issued_before |-> FALSE]

\* no submit_quote() request
SqIdle == [pc |-> "idle", order_id |-> None, supplier_id |-> None, price |-> None,
           existing_quote |-> None]

\* no list request yet
CuIdle == [pc |-> "idle"]

\* a BackupManager with an empty backup directory; the database file has
\* its first content
BkInit == [now |-> 1, db |-> 1, files |-> {}, calls |-> <<>>]

\* table users: id -> row; two administrators and a user of a partition
UserTable ==
    (1 :> [business_type |-> "admin"])
    @@ (2 :> [business_type |-> "admin"])
    @@ (3 :> [business_type |-> "oil"])

\* no delete_user() request
DuIdle == [pc |-> "idle", current_user |-> None, user_id |-> None, held |-> FALSE,
           result |-> "none"]

\* _deletion_locks = {}
DlInit == [locks |-> <<>>, now |-> 0, th |-> [p \in 1..NumReq |-> DuIdle]]

\* table suppliers: id -> row
SupplierTable ==
    (1 :> [name |-> "A", webhook_url |-> "not-a-url", access_code |-> "code",
           business_type |-> "oil"])
    @@ (2 :> [name |-> "B", webhook_url |-> "None", access_code |-> "code",
              business_type |-> "oil"])

----------------------------------------------------------------------------
(* The allocator called directly, as the tests and scripts call it *)

\* order.generate_order_no() on a saved (self_id = its id) or unsaved order
AllocCall ==
    /\ \E self_id \in {None, nextId} :
          gen' = generate_order_no(self_id, orders, today, ciLike)
    /\ UNCHANGED <<today, ciLike, orders, nextId, u, req, issued, quotes, nt, qc,
                 sq, suppliers, cu, bk, users, dl>>

\* order.order_no = <the number>; db.session.commit()
AllocStore ==
    /\ gen.kind = "ok"
    /\ nextId <= MaxSeed + MaxStored
    /\ IF UniqueOk(orders, gen.order_no)
       THEN /\ orders' = orders @@ (nextId :> OrderRow(gen.order_no, {}))
            /\ nextId' = nextId + 1
            /\ issued' = Issue(issued, gen.order_no)
       ELSE UNCHANGED <<orders, nextId, issued>>
    /\ gen' = NoGen
    /\ UNCHANGED <<today, ciLike, u, req, quotes, nt, qc,
                 sq, suppliers, cu, bk, users, dl>>

\* midnight passes
DayAdvance ==
    /\ today < MaxDay
    /\ today' = today + 1
    /\ UNCHANGED <<ciLike, orders, nextId, gen, u, req, issued, quotes, nt, qc,
                 sq, suppliers, cu, bk, users, dl>>

----------------------------------------------------------------------------
(* Order.generate_unique_order_no(max_retries=5), one datastore query per step *)

\* a loop that goes round once more than max_retries
LoopContinues_OneMore(attempt) == attempt + 1 < max_retries + 1

\* for attempt in range(max_retries): whether another iteration follows
LoopContinues(attempt) == attempt + 1 < max_retries

\* the sleeps, in milliseconds
CollisionSleep(attempt) == 1 * (attempt + 1)

ErrorSleep(attempt) == 10 * (attempt + 1)

UCall ==
    /\ u.pc = "idle"
    /\ u' = [UIdle EXCEPT !.pc = "scan"]
    /\ UNCHANGED <<today, ciLike, orders, nextId, gen, req, issued, quotes, nt, qc,
                 sq, suppliers, cu, bk, users, dl>>

\* the outcome r of one scan-and-compute cycle in the loop: the ValueError of
\* the daily limit is caught by "except Exception", which re-raises on the last
\* attempt and sleeps otherwise
AfterScan(a, r) ==
    IF r.kind = "ok"
    THEN [a EXCEPT !.pc = "check", !.order_no = r.order_no,
                   !.date_str = r.date_str, !.cycles = @ + 1]
    ELSE IF a.attempt = max_retries - 1
    THEN [a EXCEPT !.pc = "raised", !.order_no = <<>>,
                   !.date_str = r.date_str, !.cycles = @ + 1]
    ELSE [a EXCEPT !.pc = "scan", !.order_no = <<>>,
                   !.date_str = r.date_str, !.cycles = @ + 1,
                   !.attempt = @ + 1,
                   !.waits = Append(@, ErrorSleep(a.attempt))]

UScan ==
    /\ u.pc = "scan"
    /\ u' = AfterScan(u, ComputeOrderNo(orders, today, ciLike))
    /\ UNCHANGED <<today, ciLike, orders, nextId, gen, req, issued, quotes, nt, qc,
                 sq, suppliers, cu, bk, users, dl>>

\* the exact-match check: return the candidate, or sleep and go round again;
\* when the loop is exhausted the final raise is reached
UCheck ==
    /\ u.pc = "check"
    /\ IF ~Existing(orders, u.order_no)
       THEN u' = [u EXCEPT !.pc = "returned"]
       ELSE u' = [u EXCEPT !.pc = IF LoopContinues(u.attempt) THEN "scan" ELSE "raised",
                           !.attempt = @ + 1,
                           !.waits = Append(@, CollisionSleep(u.attempt))]
    /\ UNCHANGED <<today, ciLike, orders, nextId, gen, req, issued, quotes, nt, qc,
                 sq, suppliers, cu, bk, users, dl>>

\* the caller has the result; the next call starts afresh
UReturn ==
    /\ u.pc \in {"returned", "raised"}
    /\ u' = UIdle
    /\ UNCHANGED <<today, ciLike, orders, nextId, gen, req, issued, quotes, nt, qc,
                 sq, suppliers, cu, bk, users, dl>>

\* a concurrent creator computes its number: order.generate_order_no() after flush
WriterCall ==
    /\ gen.kind = "none"
    /\ gen' = generate_order_no(nextId, orders, today, ciLike)
    /\ UNCHANGED <<today, ciLike, orders, nextId, u, req, issued, quotes, nt, qc,
                 sq, suppliers, cu, bk, users, dl>>

InitTable(seeds, nreq, folds) ==
    /\ today = 1
    /\ ciLike \in folds
    /\ \E nos \in SmallSubsets(seeds, MaxSeed) :
          /\ orders = TableOf(nos)
    /\ nextId = MaxSeed + 1
    /\ gen = NoGen
    /\ u = UIdle
    /\ req = [p \in 1..nreq |-> ReqIdle]
    /\ issued = <<>>
    /\ quotes = {}
    /\ nt = NtIdle
    /\ qc = QcInit
    /\ sq = [p \in 1..NumReq |-> SqIdle]
    /\ suppliers = SupplierTable
    /\ cu = CuIdle
    /\ bk = BkInit
    /\ users = UserTable
    /\ dl = DlInit

InitAlloc == InitTable(WellFormedSeeds \cup MalformedSeeds, 0, BOOLEAN)

NextAlloc ==
    \/ AllocCall
    \/ AllocStore
    \/ DayAdvance

\* generate_order_no applied to tables of every kind, one caller at a time
SpecAlloc == InitAlloc /\ [][NextAlloc]_vars

InitUnique == InitTable(WellFormedSeeds, 0, BOOLEAN)

NextUnique ==
    \/ UCall
    \/ UScan
    \/ UCheck
    \/ UReturn
    \/ WriterCall
    \/ AllocStore
    \/ DayAdvance

\* generate_unique_order_no beside a concurrent creator
SpecUnique == InitUnique /\ [][NextUnique]_vars

----------------------------------------------------------------------------
(* create() of routes/order.py, one datastore interaction per step.  A request
   runs in its own transaction: the row it has flushed is invisible to the
   other requests until it commits, and its reads see the committed rows. *)

Req == 1..NumReq

\* the suppliers a creation request can name
SupplierIds == {1}

\* str(uuid.uuid4())[:3].upper(): three hexadecimal characters
TempSuffixes == { <<"0", "0", "9">>, <<"A", "1", "B">> }

\* Order.generate_temp_order_no()
generate_temp_order_no(now, suffix) == TEMP \o strftime(now) \o suffix

\* the form is valid; db.session.add(order); db.session.flush(): the row gets
\* its id under the placeholder number (IntegrityError when a committed row
\* holds the same placeholder)
CreateBegin(p) ==
    /\ req[p].pc = "idle"
    /\ nextId <= MaxSeed + MaxCreates
    /\ \E sel \in (SUBSET SupplierIds) \ {{}}, suffix \in TempSuffixes :
          LET temp == generate_temp_order_no(today, suffix)
          IN  IF UniqueOk(orders, temp)
              THEN /\ req' = [req EXCEPT ![p] = [pc |-> "flushed", id |-> nextId,
                                                 order_no |-> temp, sel |-> sel,
                                                 error |-> "none",
                                                 issued_before |-> FALSE]]
                   /\ nextId' = nextId + 1
              ELSE /\ req' = [req EXCEPT ![p] = [ReqIdle EXCEPT
                                                 !.pc = "failed",
                                                 !.order_no = temp,
                                                 !.error = "IntegrityError"]]
                   /\ UNCHANGED nextId
    /\ UNCHANGED <<today, ciLike, orders, gen, u, issued, quotes, nt, qc,
                 sq, suppliers, cu, bk, users, dl>>

\* the number no has been committed before, by the history hist
WasIssued(hist, no) ==
    /\ SubSeq(no, 3, 8) \in DOMAIN hist
    /\ int(Last3(no)) <= hist[SubSeq(no, 3, 8)]

\* a handler that goes on to the commit after a failed generation
RollsBack_Never(kind) == FALSE

\* except ValueError: db.session.rollback()
RollsBack(kind) == kind # "ok"

\* order.order_no = order.generate_order_no(); the suppliers are appended;
\* a ValueError rolls the transaction back, and without a new number the
\* attribute keeps the placeholder
CreateGenerate(p) ==
    /\ req[p].pc = "flushed"
    /\ LET r == generate_order_no(req[p].id, orders, today, ciLike)
       IN  req' = [req EXCEPT ![p] =
                     IF ~RollsBack(r.kind)
                     THEN [@ EXCEPT !.pc = "numbered",
                                    !.order_no = IF r.kind = "ok" THEN r.order_no ELSE @,
                                    !.issued_before = r.kind = "ok" /\ WasIssued(issued, r.order_no)]
                     ELSE [@ EXCEPT !.pc = "failed", !.error = r.kind]]
    /\ UNCHANGED <<today, ciLike, orders, nextId, gen, u, issued, quotes, nt, qc,
                 sq, suppliers, cu, bk, users, dl>>

\* db.session.commit(): the datastore checks the uniqueness of order_no; an
\* IntegrityError rolls the transaction back
CreateCommit(p) ==
    /\ req[p].pc = "numbered"
    /\ IF UniqueOk(orders, req[p].order_no)
       THEN /\ orders' = orders @@ (req[p].id :> OrderRow(req[p].order_no, req[p].sel))
            /\ issued' = Issue(issued, req[p].order_no)
            /\ req' = [req EXCEPT ![p].pc = "committed"]
       ELSE /\ req' = [req EXCEPT ![p] = [@ EXCEPT !.pc = "failed",
                                                    !.error = "IntegrityError"]]
            /\ UNCHANGED <<orders, issued>>
    /\ UNCHANGED <<today, ciLike, nextId, gen, u, quotes, nt, qc,
                 sq, suppliers, cu, bk, users, dl>>

\* the response is sent; the worker takes the next request
CreateReturn(p) ==
    /\ req[p].pc \in {"committed", "failed"}
    /\ req' = [req EXCEPT ![p] = ReqIdle]
    /\ UNCHANGED <<today, ciLike, orders, nextId, gen, u, issued, quotes, nt, qc,
                 sq, suppliers, cu, bk, users, dl>>

\* a table without the rows of one order
Without(tbl, id) == [i \in DOMAIN tbl \ {id} |-> tbl[i]]

\* cancel(): an order that is not completed is deleted, with its quotes
Cancel(id) ==
    /\ id \in DOMAIN orders
    /\ orders[id].status # "completed"
    /\ orders' = Without(orders, id)
    /\ quotes' = {q \in quotes : q.order_id # id}
    /\ UNCHANGED <<today, ciLike, nextId, gen, u, req, issued, nt, qc,
                 sq, suppliers, cu, bk, users, dl>>

\* the orders of the day so far: none, or orders close to the daily limit
Init == InitTable(NearCapSeeds, NumReq, {FALSE})

Next ==
    \/ \E p \in Req : CreateBegin(p)
    \/ \E p \in Req : CreateGenerate(p)
    \/ \E p \in Req : CreateCommit(p)
    \/ \E p \in Req : CreateReturn(p)
    \/ \E id \in 1..(MaxSeed + MaxCreates) : Cancel(id)
    \/ DayAdvance

\* concurrent order creation
Spec == Init /\ [][Next]_vars

----------------------------------------------------------------------------
(* notify_suppliers(order, suppliers), one statement of the loop per step *)

\* `not v` for a nullable text column: None and the empty string are false
Falsy(v) == v \in {"None", ""}

\* the classes an exception is an instance of (requests.exceptions, werkzeug)
ClassesOf(exc) ==
    IF exc = "ConnectTimeout"
    THEN {"ConnectTimeout", "Timeout", "ConnectionError", "RequestException", "Exception"}
    ELSE IF exc = "ReadTimeout"
    THEN {"ReadTimeout", "Timeout", "RequestException", "Exception"}
    ELSE IF exc = "ConnectionError"
    THEN {"ConnectionError", "RequestException", "Exception"}
    ELSE IF exc = "MissingSchema"
    THEN {"MissingSchema", "RequestException", "Exception"}
    ELSE {exc, "Exception"}

\* except clauses that stop at the exceptions of the requests library
ExceptClauses_RequestsOnly == <<"Timeout", "ConnectionError", "RequestException">>

\* the except clauses of the try statement, in order
ExceptClauses == <<"Timeout", "ConnectionError", "RequestException", "Exception">>

Caught(exc) == \E k \in 1..Len(ExceptClauses) : ExceptClauses[k] \in ClassesOf(exc)

\* what one pass through the try body can end in, for supplier s:
\* url_for raises BuildError without an access code value; the access-code
\* check; requests.post raises or answers with a status code
AttemptOutcomes(s) ==
    IF s.access_code = "None" THEN {"BuildError"}
    ELSE IF Falsy(s.access_code) THEN {"NoAccessCode"}
    ELSE IF s.webhook_url = "not-a-url" THEN {"MissingSchema"}
    ELSE {"200", "500", "ConnectTimeout", "ReadTimeout", "ConnectionError",
          "TypeError"}

StatusCodes == {"200", "500"}

\* a test that holds on every attempt
IsLastAttempt_Always(attempt) == TRUE

\* attempt == max_retries - 1
IsLastAttempt(attempt) == attempt = notify_max_retries - 1

\* a loop that makes one attempt more
MoreAttempts_OneMore(attempt) == attempt < notify_max_retries

\* range(max_retries) has a value after attempt
MoreAttempts(attempt) == attempt < notify_max_retries - 1

\* a wait of the same length every time
SleepHalfSeconds_Constant(attempt) == 1

\* time.sleep(0.5 * (attempt + 1)), in half seconds
SleepHalfSeconds(attempt) == attempt + 1

\* suppliers as the caller can pass them: without webhook, with a malformed
\* one, and with a well-formed one with or without an access code
SupplierKinds ==
    [name : {"A"}, webhook_url : {"None", "", "not-a-url"},
     access_code : {"code"}]
    \cup [name : {"A"}, webhook_url : {"https://hook"},
          access_code : {"None", ""}]
    \cup [name : {"A", "B"}, webhook_url : {"https://hook"},
          access_code : {"code"}]

SupplierLists ==
    UNION {[1..n -> SupplierKinds] : n \in 0..MaxSuppliers}

\* the activation record at the call: success_count = 0, failed_suppliers = []
NotifyStart(order_no, sups) ==
    [pc |-> "for", order_no |-> order_no,
     suppliers |-> sups, i |-> 1, attempt |-> 0,
     success_count |-> 0, failed_suppliers |-> <<>>,
     sleeps |-> <<>>, last |-> "none", outs |-> <<>>,
     counted_ok |-> <<>>, counted_failed |-> <<>>]

\* the call on a committed order
NotifyCall(order_id, sups) ==
    /\ nt.pc = "idle"
    /\ order_id \in DOMAIN orders
    /\ nt' = NotifyStart(orders[order_id].order_no, sups)
    /\ UNCHANGED <<today, ciLike, orders, nextId, gen, u, req, issued, quotes, qc,
                 sq, suppliers, cu, bk, users, dl>>

\* for supplier in suppliers: a supplier without webhook_url is skipped
NotifyFor ==
    /\ nt.pc = "for"
    /\ nt' = IF nt.i > Len(nt.suppliers)
             THEN [nt EXCEPT !.pc = "returned", !.outs = <<>>]
             ELSE IF Falsy(nt.suppliers[nt.i].webhook_url)
             THEN [nt EXCEPT !.i = @ + 1, !.outs = <<>>]
             ELSE [nt EXCEPT !.pc = "try", !.attempt = 0, !.outs = <<>>]
    /\ UNCHANGED <<today, ciLike, orders, nextId, gen, u, req, issued, quotes, qc,
                 sq, suppliers, cu, bk, users, dl>>

\* the state after one pass through the try statement that ended in out;
\* counted_ok and counted_failed are history: the positions counted; outs is
\* history: what the attempts for the supplier at hand have ended in
AfterAttempt(a, out) ==
    LET s == a.suppliers[a.i]
        b == [a EXCEPT !.last = out, !.outs = Append(@, out)]
    IN  IF out = "NoAccessCode"
        THEN [b EXCEPT !.failed_suppliers = Append(@, s.name),
                       !.counted_failed = Append(@, a.i),
                       !.pc = "for", !.i = @ + 1]
        ELSE IF out = "200"
        THEN [b EXCEPT !.success_count = @ + 1,
                       !.counted_ok = Append(@, a.i),
                       !.pc = "for", !.i = @ + 1]
        ELSE IF out \in StatusCodes \/ Caught(out)
        THEN LET c == IF IsLastAttempt(a.attempt)
                      THEN [b EXCEPT !.failed_suppliers = Append(@, s.name),
                                     !.counted_failed = Append(@, a.i)]
                      ELSE b
             IN  IF MoreAttempts(a.attempt)
                 THEN [c EXCEPT !.pc = "sleep"]
                 ELSE [c EXCEPT !.pc = "for", !.i = @ + 1]
        ELSE [b EXCEPT !.pc = "raised"]

\* one pass through the try statement
NotifyAttempt ==
    /\ nt.pc = "try"
    /\ \E out \in AttemptOutcomes(nt.suppliers[nt.i]) : nt' = AfterAttempt(nt, out)
    /\ UNCHANGED <<today, ciLike, orders, nextId, gen, u, req, issued, quotes, qc,
                 sq, suppliers, cu, bk, users, dl>>

\* the wait before the next attempt
NotifySleep ==
    /\ nt.pc = "sleep"
    /\ nt' = [nt EXCEPT !.sleeps = Append(@, SleepHalfSeconds(nt.attempt)),
                        !.attempt = @ + 1, !.pc = "try"]
    /\ UNCHANGED <<today, ciLike, orders, nextId, gen, u, req, issued, quotes, qc,
                 sq, suppliers, cu, bk, users, dl>>

\* return success_count, failed_suppliers: the caller goes on
NotifyReturn ==
    /\ nt.pc = "returned"
    /\ nt' = NtIdle
    /\ UNCHANGED <<today, ciLike, orders, nextId, gen, u, req, issued, quotes, qc,
                 sq, suppliers, cu, bk, users, dl>>

NotifySeeds == { RX \o strftime(1) \o Format03d(1) }

InitNotify ==
    /\ InitTable(NotifySeeds, 0, {FALSE})
    /\ orders # <<>>

NextNotify ==
    \/ \E id \in 1..MaxSeed : \E sups \in SupplierLists : NotifyCall(id, sups)
    \/ NotifyFor
    \/ NotifyAttempt
    \/ NotifySleep
    \/ NotifyReturn

\* the notifier on every supplier list
SpecNotify == InitNotify /\ [][NextNotify]_vars

----------------------------------------------------------------------------
(* create() with its notification: after the commit, notify_suppliers runs
   inside try / except Exception, then the success message is flashed *)

\* the rows of the selected suppliers are loaded again after the commit (the
\* session expires them), and notify_suppliers is called with them
CreateNotifyCall(p) ==
    /\ req[p].pc = "committed"
    /\ nt.pc = "idle"
    /\ \E sups \in SupplierLists :
          /\ Len(sups) = Cardinality(req[p].sel)
          /\ nt' = NotifyStart(orders[req[p].id].order_no, sups)
    /\ req' = [req EXCEPT ![p].pc = "notifying"]
    /\ UNCHANGED <<today, ciLike, orders, nextId, gen, u, issued, quotes, qc,
                 sq, suppliers, cu, bk, users, dl>>

\* loading supplier.webhook_url fails in the datastore: the exception is
\* raised outside the try statement of notify_suppliers and leaves it
NotifyLoadFails ==
    /\ nt.pc = "for"
    /\ nt.i <= Len(nt.suppliers)
    /\ nt' = [nt EXCEPT !.pc = "raised", !.last = "OperationalError"]
    /\ UNCHANGED <<today, ciLike, orders, nextId, gen, u, req, issued, quotes, qc,
                 sq, suppliers, cu, bk, users, dl>>

\* a caller without the try statement: the exception ends the creation
AfterNotify_Propagates(pc) == IF pc = "raised" THEN "failed" ELSE "succeeded"

\* try: notify_suppliers(...) except Exception: only notification_status
\* differs; the success message is flashed
AfterNotify(pc) == "succeeded"

\* notify_suppliers has returned or raised
CreateNotified(p) ==
    /\ req[p].pc = "notifying"
    /\ nt.pc \in {"returned", "raised"}
    /\ req' = [req EXCEPT ![p].pc = AfterNotify(nt.pc)]
    /\ UNCHANGED <<today, ciLike, orders, nextId, gen, u, issued, quotes, nt, qc,
                 sq, suppliers, cu, bk, users, dl>>

\* redirect to the detail page of the order
CreateRespond(p) ==
    /\ req[p].pc = "succeeded"
    /\ req' = [req EXCEPT ![p] = ReqIdle]
    /\ nt' = NtIdle
    /\ UNCHANGED <<today, ciLike, orders, nextId, gen, u, issued, quotes, qc,
                 sq, suppliers, cu, bk, users, dl>>

\* no order or one order of the day, and room for two creations
InitCreate ==
    /\ today = 1
    /\ ciLike = FALSE
    /\ orders \in {TableOf(nos) : nos \in SUBSET NotifySeeds}
    /\ nextId = MaxSeed + MaxCreates - 1
    /\ gen = NoGen
    /\ u = UIdle
    /\ req = [p \in Req |-> ReqIdle]
    /\ issued = <<>>
    /\ quotes = {}
    /\ nt = NtIdle
    /\ qc = QcInit
    /\ sq = [p \in 1..NumReq |-> SqIdle]
    /\ suppliers = SupplierTable
    /\ cu = CuIdle
    /\ bk = BkInit
    /\ users = UserTable
    /\ dl = DlInit

NextCreate ==
    \/ \E p \in Req : CreateBegin(p)
    \/ \E p \in Req : CreateGenerate(p)
    \/ \E p \in Req : CreateCommit(p)
    \/ \E p \in Req : CreateNotifyCall(p)
    \/ NotifyFor
    \/ NotifyAttempt
    \/ NotifySleep
    \/ NotifyLoadFails
    \/ \E p \in Req : CreateNotified(p)
    \/ \E p \in Req : CreateRespond(p)
    \/ \E p \in Req : req[p].pc = "failed" /\ CreateReturn(p)

\* order creation with the notification of the selected suppliers
SpecCreate == InitCreate /\ [][NextCreate]_vars

----------------------------------------------------------------------------
(* The handlers that work on a committed order: edit, add_suppliers,
   select_supplier, reset_selection and cancel of routes/order.py and
   submit_quote of routes/supplier_portal.py.  Each does one commit. *)


\* the values of a form field for a supplier id: absent (0) or an id
FormSupplierIds == {0} \cup DOMAIN SupplierTable

\* the values of a form field for a price: absent or zero, negative, valid
FormPrices == {0, -1, 5}

\* the values of the edited fields warehouse, goods, delivery_address: one
\* of them empty (0) or all filled in
FormGoods == {0, 1}

\* the rows of a set of supplier ids, by id
RECURSIVE SupplierRows(_)
SupplierRows(S) ==
    IF S = {} THEN <<>>
    ELSE LET m == CHOOSE x \in S : \A y \in S : y <= x
         IN  Append(SupplierRows(S \ {m}), SupplierTable[m])

\* an edit that puts the placeholder number back
EditRow_Renumber(o, goods) ==
    [o EXCEPT !.goods = goods, !.order_no = TEMP \o SubSeq(o.order_no, 3, 11)]

\* order.warehouse = ...; order.goods = ...; order.delivery_address = ...
EditRow(o, goods) == [o EXCEPT !.goods = goods]

\* edit(): only an active order, only with all fields filled in
Edit(id, goods) ==
    /\ id \in DOMAIN orders
    /\ orders[id].status = "active"
    /\ goods # 0
    /\ orders' = [orders EXCEPT ![id] = EditRow(@, goods)]
    /\ UNCHANGED <<today, ciLike, nextId, gen, u, req, issued, quotes, nt, qc,
                 sq, suppliers, cu, bk, users, dl>>

\* add_suppliers(): only an active order; the suppliers not yet associated
\* are appended
AddSuppliers(id, supplier_ids) ==
    /\ id \in DOMAIN orders
    /\ orders[id].status = "active"
    /\ supplier_ids # {}
    /\ LET new_supplier_ids == supplier_ids \ orders[id].suppliers
           new_suppliers == new_supplier_ids \cap DOMAIN suppliers
       IN  /\ new_supplier_ids # {}
           /\ orders' = [orders EXCEPT ![id].suppliers = @ \cup new_suppliers]
    /\ UNCHANGED <<today, ciLike, nextId, gen, u, req, issued, quotes, nt, qc,
                 sq, suppliers, cu, bk, users, dl>>

\* Quote.query.filter_by(order_id=..., supplier_id=...).first() is not None
\* a selection that does not look for the quote
HasQuote_Unchecked(qs, order_id, supplier_id) == TRUE

HasQuote(qs, order_id, supplier_id) ==
    \E q \in qs : q.order_id = order_id /\ q.supplier_id = supplier_id

\* select_supplier(): supplier and price given, the supplier has a quote for
\* the order, the price is positive
SelectSupplier(id, supplier_id, price) ==
    /\ id \in DOMAIN orders
    /\ supplier_id # 0 /\ price # 0
    /\ HasQuote(quotes, id, supplier_id)
    /\ price > 0
    /\ orders' = [orders EXCEPT ![id] = [@ EXCEPT !.selected_supplier_id = supplier_id,
                                                  !.selected_price = price,
                                                  !.status = "completed"]]
    /\ UNCHANGED <<today, ciLike, nextId, gen, u, req, issued, quotes, nt, qc,
                 sq, suppliers, cu, bk, users, dl>>

\* a reset that keeps the selection
reset_to_active_KeepsSelection(o) == [o EXCEPT !.status = "active"]

\* Order.reset_to_active()
reset_to_active(o) ==
    [o EXCEPT !.selected_supplier_id = None, !.selected_price = None,
              !.status = "active"]

\* reset_selection(): only a completed order with a selected supplier
ResetSelection(id) ==
    /\ id \in DOMAIN orders
    /\ orders[id].status = "completed"
    /\ orders[id].selected_supplier_id # None
    /\ orders' = [orders EXCEPT ![id] = reset_to_active(@)]
    /\ UNCHANGED <<today, ciLike, nextId, gen, u, req, issued, quotes, nt, qc,
                 sq, suppliers, cu, bk, users, dl>>

\* the id the datastore gives a new row of table quotes
NextQuoteId(qs) ==
    IF qs = {} THEN 1
    ELSE (CHOOSE m \in {q.id : q \in qs} : \A q \in qs : q.id <= m) + 1

\* Quote.query.filter_by(order_id=..., supplier_id=...).first(): the id of
\* the row, None without one
FirstQuote(qs, order_id, supplier_id) ==
    LET found == {q.id : q \in {r \in qs : r.order_id = order_id
                                           /\ r.supplier_id = supplier_id}}
    IN  IF found = {} THEN None
        ELSE CHOOSE m \in found : \A k \in found : m <= k

\* existing_quote.price = price, committed; without the row the update fails
\* and is rolled back
UpdateQuote(qs, quote_id, price) ==
    {IF q.id = quote_id THEN [q EXCEPT !.price = price] ELSE q : q \in qs}

\* db.session.add(Quote(order_id=..., supplier_id=..., price=...)), committed
AddQuote(qs, order_id, supplier_id, price) ==
    qs \cup {[id |-> NextQuoteId(qs), order_id |-> order_id,
              supplier_id |-> supplier_id, price |-> price]}

\* if existing_quote: ... else: ...; db.session.commit()
WriteQuote(qs, existing_quote, order_id, supplier_id, price) ==
    IF existing_quote # None
    THEN UpdateQuote(qs, existing_quote, price)
    ELSE AddQuote(qs, order_id, supplier_id, price)

\* a portal that takes quotes for orders of any status
OrderOpen_AnyStatus(o) == TRUE

\* Order.status == 'active'
OrderOpen(o) == o.status = "active"

\* the order of the route, associated with the supplier of the session and
\* active; a price that passes the validation
QuoteAccepted(id, supplier_id, price) ==
    /\ supplier_id \in DOMAIN suppliers
    /\ id \in DOMAIN orders
    /\ supplier_id \in orders[id].suppliers
    /\ OrderOpen(orders[id])
    /\ price # 0 /\ price > 0
    /\ ~(price > MaxPrice)

\* submit_quote(), the whole request: the supplier's quote for the order is
\* updated when there is one and inserted otherwise
SubmitQuote(id, supplier_id, price) ==
    /\ QuoteAccepted(id, supplier_id, price)
    /\ quotes' = WriteQuote(quotes, FirstQuote(quotes, id, supplier_id),
                            id, supplier_id, price)
    /\ UNCHANGED <<today, ciLike, orders, nextId, gen, u, req, issued, nt, qc,
                   sq, suppliers, cu, bk, users, dl>>

\* one order of the day, and room for one more creation
InitLife ==
    /\ today = 1
    /\ ciLike = FALSE
    /\ orders = (1 :> OrderRow(RX \o strftime(1) \o Format03d(1), {1}))
    /\ nextId = MaxSeed + MaxCreates
    /\ gen = NoGen
    /\ u = UIdle
    /\ req = [p \in Req |-> ReqIdle]
    /\ issued = <<>>
    /\ quotes = {}
    /\ nt = NtIdle
    /\ qc = QcInit
    /\ sq = [p \in 1..NumReq |-> SqIdle]
    /\ suppliers = SupplierTable
    /\ cu = CuIdle
    /\ bk = BkInit
    /\ users = UserTable
    /\ dl = DlInit

OrderIds == 1..(MaxSeed + MaxCreates)

NextLife ==
    \/ \E p \in Req : CreateBegin(p)
    \/ \E p \in Req : CreateGenerate(p)
    \/ \E p \in Req : CreateCommit(p)
    \/ \E p \in Req : CreateReturn(p)
    \/ \E id \in OrderIds, goods \in FormGoods : Edit(id, goods)
    \/ \E id \in OrderIds, S \in SUBSET DOMAIN SupplierTable : AddSuppliers(id, S)
    \/ \E id \in OrderIds, sid \in FormSupplierIds, price \in FormPrices :
          SelectSupplier(id, sid, price)
    \/ \E id \in OrderIds : ResetSelection(id)
    \/ \E id \in OrderIds, sid \in FormSupplierIds, price \in FormPrices :
          SubmitQuote(id, sid, price)
    \/ \E id \in OrderIds : Cancel(id)
    \/ \E id \in OrderIds :
          /\ id \in DOMAIN orders
          /\ NotifyCall(id, SupplierRows(orders[id].suppliers))
    \/ NotifyFor
    \/ NotifyAttempt
    \/ NotifySleep
    \/ NotifyReturn

\* the life of committed orders
SpecLife == InitLife /\ [][NextLife]_vars

----------------------------------------------------------------------------
(* submit_quote(), one datastore access per step: concurrent requests of   *)
(* the supplier portal                                                     *)

\* the values of the form field price of the portal: absent or zero,
\* negative, and two valid prices
QuotePrices == {0, -1, 5, 7}

\* the order is loaded, then existing_quote is read; a request with an
\* invalid price ends here with the form shown again
SubmitQuoteRead(p, id, supplier_id, price) ==
    /\ sq[p].pc = "idle"
    /\ QuoteAccepted(id, supplier_id, price)
    /\ sq' = [sq EXCEPT ![p] = [pc |-> "read", order_id |-> id,
                                supplier_id |-> supplier_id, price |-> price,
                                existing_quote |-> FirstQuote(quotes, id, supplier_id)]]
    /\ UNCHANGED <<today, ciLike, orders, nextId, gen, u, req, issued, quotes, nt, qc,
                   suppliers, cu, bk, users, dl>>

\* the existing quote is updated or a new one is added, and committed
SubmitQuoteWrite(p) ==
    /\ sq[p].pc = "read"
    /\ quotes' = WriteQuote(quotes, sq[p].existing_quote, sq[p].order_id,
                            sq[p].supplier_id, sq[p].price)
    /\ sq' = [sq EXCEPT ![p] = SqIdle]
    /\ UNCHANGED <<today, ciLike, orders, nextId, gen, u, req, issued, nt, qc,
                   suppliers, cu, bk, users, dl>>

\* one active order sent to both suppliers, no quote yet
InitQuote ==
    /\ today = 1
    /\ ciLike = FALSE
    /\ orders = (1 :> OrderRow(RX \o strftime(1) \o Format03d(1), DOMAIN SupplierTable))
    /\ nextId = 2
    /\ gen = NoGen
    /\ u = UIdle
    /\ req = [p \in Req |-> ReqIdle]
    /\ issued = <<>>
    /\ quotes = {}
    /\ nt = NtIdle
    /\ qc = QcInit
    /\ sq = [p \in Req |-> SqIdle]
    /\ suppliers = SupplierTable
    /\ cu = CuIdle
    /\ bk = BkInit
    /\ users = UserTable
    /\ dl = DlInit

NextQuote ==
    \/ \E p \in Req, id \in OrderIds, sid \in FormSupplierIds, price \in QuotePrices :
          SubmitQuoteRead(p, id, sid, price)
    \/ \E p \in Req : SubmitQuoteWrite(p)

\* concurrent quote submission
SpecQuote == InitQuote /\ [][NextQuote]_vars

\* the values of the form field price of the portal, one above the highest
\* price included
PortalPrices == QuotePrices \cup {MaxPrice + 1}

NextPortal ==
    \/ \E id \in OrderIds, sid \in FormSupplierIds, price \in PortalPrices :
          SubmitQuote(id, sid, price)
    \/ \E id \in OrderIds, S \in SUBSET DOMAIN SupplierTable : AddSuppliers(id, S)
    \/ \E id \in OrderIds, sid \in FormSupplierIds, price \in PortalPrices :
          SelectSupplier(id, sid, price)
    \/ \E id \in OrderIds : ResetSelection(id)
    \/ \E id \in OrderIds, goods \in FormGoods : Edit(id, goods)
    \/ \E id \in OrderIds : Cancel(id)

\* the supplier portal and the buyer's routes on one order, request after
\* request
SpecPortal == InitLife /\ [][NextPortal]_vars

----------------------------------------------------------------------------
(* The partitions of the data by business type: business_type_filter,      *)
(* QueryOptimizer.apply_business_type_filter, and the supplier routes       *)

\* the values of column business_type of orders and suppliers
BusinessTypes == {"oil", "fast_moving"}

\* flask_login's AnonymousUserMixin
AnonymousUser == [is_authenticated |-> FALSE, business_type |-> "None"]

\* the users the admin routes create
AppUsers ==
    {[is_authenticated |-> TRUE, business_type |-> b] :
        b \in {"admin"} \cup BusinessTypes}

\* current_user: anonymous, a user of the application, or a row of table
\* users whose nullable business_type is NULL or empty
Users ==
    {AnonymousUser} \cup AppUsers
    \cup {[is_authenticated |-> TRUE, business_type |-> b] : b \in {"None", ""}}

\* User.is_admin()
is_admin(user) == user.business_type = "admin"

\* a filter that lets every row through
business_type_filter_Unfiltered(user, tbl) == DOMAIN tbl

\* business_type_filter(query, model_class) for current_user = user: the ids
\* of the rows of the filtered query
business_type_filter(user, tbl) ==
    IF ~user.is_authenticated THEN {}
    ELSE IF is_admin(user) THEN DOMAIN tbl
    ELSE IF Falsy(user.business_type) THEN {}
    ELSE {i \in DOMAIN tbl : tbl[i].business_type = user.business_type}

\* QueryOptimizer.apply_business_type_filter(query, model_class,
\* user_business_type); a comparison with None selects the rows whose
\* column is NULL
apply_business_type_filter(tbl, user_business_type) ==
    IF user_business_type = "admin" THEN DOMAIN tbl
    ELSE {i \in DOMAIN tbl : tbl[i].business_type = user_business_type}

\* the rows of a model class
TableOfModel(model_class) == IF model_class = "Order" THEN orders ELSE suppliers

ModelClasses == {"Order", "Supplier"}

\* business_type_filter(Model.query, Model).all() in a request of user
FilterAll(user, model_class) ==
    /\ cu' = [pc |-> "done", via |-> "business_type_filter", user |-> user,
              model_class |-> model_class,
              rows |-> [i \in DOMAIN TableOfModel(model_class) |->
                           TableOfModel(model_class)[i].business_type],
              result |-> business_type_filter(user, TableOfModel(model_class))]
    /\ UNCHANGED <<today, ciLike, orders, nextId, gen, u, req, issued, quotes, nt, qc,
                   sq, suppliers, bk, users, dl>>

\* QueryOptimizer.apply_business_type_filter(Model.query, Model,
\* user.business_type).all()
ApplyFilterAll(user, model_class) ==
    /\ user.is_authenticated
    /\ cu' = [pc |-> "done", via |-> "apply_business_type_filter", user |-> user,
              model_class |-> model_class,
              rows |-> [i \in DOMAIN TableOfModel(model_class) |->
                           TableOfModel(model_class)[i].business_type],
              result |-> apply_business_type_filter(TableOfModel(model_class),
                                                    user.business_type)]
    /\ UNCHANGED <<today, ciLike, orders, nextId, gen, u, req, issued, quotes, nt, qc,
                   sq, suppliers, bk, users, dl>>

\* the values of the form fields name and business_type of a supplier
FormNames == {"", "A", "C"}
FormBusinessTypes == BusinessTypes \cup {"other"}

\* the id the datastore gives a new row of table suppliers
NextSupplierId(tbl) ==
    IF DOMAIN tbl = {} THEN 1
    ELSE (CHOOSE m \in DOMAIN tbl : \A i \in DOMAIN tbl : i <= m) + 1

\* add(): a named supplier, in the partition the admin chooses or in the
\* user's own, unless the partition has a supplier of the name
SupplierAdd(user, name, form_business_type) ==
    /\ user \in AppUsers
    /\ Cardinality(DOMAIN suppliers) < MaxSupplierRows
    /\ ~Falsy(name)
    /\ LET business_type == IF is_admin(user) THEN form_business_type
                            ELSE user.business_type
       IN  /\ business_type \in BusinessTypes
           /\ ~\E i \in DOMAIN suppliers :
                   /\ suppliers[i].name = name
                   /\ suppliers[i].business_type = business_type
           /\ suppliers' =
                 [i \in DOMAIN suppliers \cup {NextSupplierId(suppliers)} |->
                     IF i \in DOMAIN suppliers THEN suppliers[i]
                     ELSE [name |-> name, webhook_url |-> "None",
                           access_code |-> "code", business_type |-> business_type]]
    /\ UNCHANGED <<today, ciLike, orders, nextId, gen, u, req, issued, quotes, nt, qc,
                   sq, cu, bk, users, dl>>

\* supplier.quotes
SupplierQuotes(qs, supplier_id) == {q \in qs : q.supplier_id = supplier_id}

\* a delete that never finds a quote
DeleteRejected_Never(qs, supplier_id) == FALSE

\* if supplier.quotes: the delete is rejected
DeleteRejected(qs, supplier_id) == SupplierQuotes(qs, supplier_id) # {}

\* delete(): a supplier the user's filter lets through and that has no
\* quote; its quotes and its rows of order_suppliers go with it
SupplierDelete(user, supplier_id) ==
    /\ user \in AppUsers
    /\ supplier_id \in business_type_filter(user, suppliers)
    /\ ~DeleteRejected(quotes, supplier_id)
    /\ suppliers' = Without(suppliers, supplier_id)
    /\ quotes' = quotes \ SupplierQuotes(quotes, supplier_id)
    /\ orders' = [id \in DOMAIN orders |->
                     [orders[id] EXCEPT !.suppliers = @ \ {supplier_id}]]
    /\ UNCHANGED <<today, ciLike, nextId, gen, u, req, issued, nt, qc, sq, cu, bk, users, dl>>

\* an order of a partition, sent to suppliers
PartitionOrder(seq, business_type, sups) ==
    [OrderRow(RX \o strftime(1) \o Format03d(seq), sups)
        EXCEPT !.business_type = business_type]

\* a supplier and an order in each partition, no quote yet
InitSupplier ==
    /\ today = 1
    /\ ciLike = FALSE
    /\ orders = (1 :> PartitionOrder(1, "oil", {1}))
                @@ (2 :> PartitionOrder(2, "fast_moving", {2}))
    /\ nextId = 3
    /\ gen = NoGen
    /\ u = UIdle
    /\ req = [p \in Req |-> ReqIdle]
    /\ issued = <<>>
    /\ quotes = {}
    /\ nt = NtIdle
    /\ qc = QcInit
    /\ sq = [p \in Req |-> SqIdle]
    /\ suppliers = (1 :> [SupplierTable[1] EXCEPT !.business_type = "oil"])
                   @@ (2 :> [SupplierTable[2] EXCEPT !.business_type = "fast_moving"])
    /\ cu = CuIdle
    /\ bk = BkInit
    /\ users = UserTable
    /\ dl = DlInit

NextSupplier ==
    \/ \E user \in Users, name \in FormNames, bt \in FormBusinessTypes :
          SupplierAdd(user, name, bt)
    \/ \E user \in Users, sid \in 1..MaxSupplierRows : SupplierDelete(user, sid)
    \/ \E id \in OrderIds, sid \in 1..MaxSupplierRows, price \in QuotePrices :
          SubmitQuote(id, sid, price)

\* the supplier routes, with quotes coming in
SpecSupplier == InitSupplier /\ [][NextSupplier]_vars

NextFilter ==
    \/ \E user \in Users, model_class \in ModelClasses : FilterAll(user, model_class)
    \/ \E user \in Users, model_class \in ModelClasses : ApplyFilterAll(user, model_class)
    \/ \E user \in Users, name \in {"", "C"}, bt \in FormBusinessTypes :
          SupplierAdd(user, name, bt)
    \/ \E user \in Users, sid \in 1..MaxSupplierRows : SupplierDelete(user, sid)

\* the filtered queries, with the suppliers changing
SpecFilter == InitSupplier /\ [][NextFilter]_vars

----------------------------------------------------------------------------
(* BackupManager.create_backup: the calls of one manager are serialised by *)
(* _operation_lock, so a call is one step                                  *)

\* the False that create_backup returns in place of a path
NoPath == [timestamp |-> 0, gz |-> FALSE]

\* f'database_backup_{timestamp}.db', with '.gz' appended when compressed
BackupFilename(timestamp, compress) == [timestamp |-> timestamp, gz |-> compress]

\* open(backup_path, 'wb') and the copy: a file of the name is replaced
WriteFile(files, name, content) ==
    {f \in files : f.name # name} \cup {[name |-> name, content |-> content]}

\* create_backup(compress): the database file is valid (ok) or not; a valid
\* one is copied to the file named after the second of the clock
CreateBackup(compress, ok) ==
    /\ Len(bk.calls) < MaxBackups
    /\ IF ok
       THEN LET backup_path == BackupFilename(bk.now, compress)
            IN  bk' = [bk EXCEPT
                         !.files = WriteFile(@, backup_path, bk.db),
                         !.calls = Append(@, [ok |-> TRUE, ret |-> backup_path,
                                              at |-> bk.now, content |-> bk.db])]
       ELSE bk' = [bk EXCEPT !.calls = Append(@, [ok |-> FALSE, ret |-> NoPath,
                                                 at |-> bk.now, content |-> bk.db])]
    /\ UNCHANGED <<today, ciLike, orders, nextId, gen, u, req, issued, quotes, nt, qc,
                   sq, suppliers, cu, users, dl>>

\* the wall clock reaches the next second
BackupTick ==
    /\ bk.now < MaxSecond
    /\ bk' = [bk EXCEPT !.now = @ + 1]
    /\ UNCHANGED <<today, ciLike, orders, nextId, gen, u, req, issued, quotes, nt, qc,
                   sq, suppliers, cu, users, dl>>

\* the application writes to the database file
DatabaseWrite ==
    /\ bk.db < MaxDbContent
    /\ bk' = [bk EXCEPT !.db = @ + 1]
    /\ UNCHANGED <<today, ciLike, orders, nextId, gen, u, req, issued, quotes, nt, qc,
                   sq, suppliers, cu, users, dl>>

InitBackup == InitTable({}, 0, {FALSE})

NextBackup ==
    \/ \E compress \in BOOLEAN, ok \in BOOLEAN : CreateBackup(compress, ok)
    \/ BackupTick
    \/ DatabaseWrite

\* backups of one manager
SpecBackup == InitBackup /\ [][NextBackup]_vars

----------------------------------------------------------------------------
(* create and add_suppliers of routes/order.py by the users of the partitions *)

\* the supplier ids a form can carry: rows of both partitions and no row
PostedSupplierIds == 1..(MaxSuppliers + 1)

\* the business type of the new order: the form field for an administrator,
\* the partition of any other user
OrderBusinessType(user, form_business_type) ==
    IF is_admin(user) THEN form_business_type ELSE user.business_type

\* Supplier.query.filter(Supplier.id.in_(supplier_ids),
\*                       Supplier.business_type == business_type).all()
SelectedSuppliers(tbl, supplier_ids, business_type) ==
    {i \in supplier_ids \cap DOMAIN tbl : tbl[i].business_type = business_type}

\* create() as one transaction: the request is rejected unless every supplier
\* named is a row of the business type of the order
CreateOrder(user, form_business_type, supplier_ids) ==
    /\ user.is_authenticated
    /\ nextId <= 2 + MaxCreates
    /\ LET business_type == OrderBusinessType(user, form_business_type)
           selected_suppliers == SelectedSuppliers(suppliers, supplier_ids, business_type)
           r == generate_order_no(nextId, orders, today, ciLike)
       IN  /\ business_type \in BusinessTypes
           /\ supplier_ids # {}
           /\ Cardinality(selected_suppliers) = Cardinality(supplier_ids)
           /\ r.kind = "ok"
           /\ UniqueOk(orders, r.order_no)
           /\ orders' = orders @@ (nextId :> [OrderRow(r.order_no, selected_suppliers)
                                                EXCEPT !.business_type = business_type])
           /\ issued' = Issue(issued, r.order_no)
           /\ nextId' = nextId + 1
    /\ UNCHANGED <<today, ciLike, gen, u, req, quotes, nt, qc,
                 sq, suppliers, cu, bk, users, dl>>

\* add_suppliers(order_id) by a user: the order is looked up in the partition
\* of the user
AddSuppliersBy(user, id, supplier_ids) ==
    /\ user.is_authenticated
    /\ id \in business_type_filter(user, orders)
    /\ AddSuppliers(id, supplier_ids)

NextAssoc ==
    \/ \E user \in AppUsers, b \in FormBusinessTypes, ids \in SUBSET PostedSupplierIds :
          CreateOrder(user, b, ids)
    \/ \E user \in AppUsers, id \in 1..(2 + MaxCreates), ids \in SUBSET PostedSupplierIds :
          AddSuppliersBy(user, id, ids)
    \/ \E user \in AppUsers, b \in FormBusinessTypes : SupplierAdd(user, "C", b)

\* orders and their suppliers in two partitions
SpecAssoc == InitSupplier /\ [][NextAssoc]_vars

----------------------------------------------------------------------------
(* admin.delete_user and utils.database_utils.safe_delete_user, one access *)
(* of the shared state per step: concurrent requests of administrators     *)

\* the state outside tables users and the deletion locks
BesidesUsers == <<today, ciLike, orders, nextId, gen, u, req, issued, quotes, nt, qc,
                  sq, suppliers, cu, bk>>

UserIds == DOMAIN UserTable

\* a function without the key k: dict.pop(k, None)
Pop(f, k) == [i \in DOMAIN f \ {k} |-> f[i]]

\* age_minutes > max_age_minutes
IsStale(lock_time, current_time) == current_time - lock_time > max_age_minutes

\* cleanup_stale_deletion_locks(): the locks older than max_age_minutes go
CleanedLocks(locks, current_time) ==
    [i \in {j \in DOMAIN locks : ~IsStale(locks[j], current_time)} |-> locks[i]]

\* User.query.filter_by(business_type='admin').count()
admin_count(tbl) == Cardinality({i \in DOMAIN tbl : tbl[i].business_type = "admin"})

\* the request of an administrator who is logged in, for any user id
DuBegin(p, actor, user_id) ==
    /\ dl.th[p].pc = "idle"
    /\ actor \in DOMAIN users
    /\ users[actor].business_type = "admin"
    /\ dl' = [dl EXCEPT !.th[p] = [DuIdle EXCEPT !.pc = "cleanup",
                                                 !.current_user = actor,
                                                 !.user_id = user_id]]
    /\ UNCHANGED users
    /\ UNCHANGED BesidesUsers

\* cleanup_stale_deletion_locks()
DuCleanup(p) ==
    /\ dl.th[p].pc = "cleanup"
    /\ dl' = [dl EXCEPT !.locks = CleanedLocks(@, dl.now),
                        !.th[p].pc = "status"]
    /\ UNCHANGED users
    /\ UNCHANGED BesidesUsers

\* get_user_deletion_status(user_id) and the returns on its result
DuStatus(p) ==
    /\ dl.th[p].pc = "status"
    /\ LET is_being_deleted == dl.th[p].user_id \in DOMAIN dl.locks
           user_exists == dl.th[p].user_id \in DOMAIN users
       IN  dl' = [dl EXCEPT !.th[p] =
                     IF ~user_exists THEN [@ EXCEPT !.pc = "done", !.result = "missing"]
                     ELSE IF is_being_deleted
                     THEN [@ EXCEPT !.pc = "done", !.result = "busy"]
                     ELSE [@ EXCEPT !.pc = "check"]]
    /\ UNCHANGED users
    /\ UNCHANGED BesidesUsers

\* admin_count <= 1
LastAdmin(tbl) == admin_count(tbl) <= 1

\* user = User.query.get(user_id) and the checks on an administrator account
DuCheck(p) ==
    /\ dl.th[p].pc = "check"
    /\ LET user_id == dl.th[p].user_id
       IN  dl' = [dl EXCEPT !.th[p] =
                     IF user_id \notin DOMAIN users
                     THEN [@ EXCEPT !.pc = "done", !.result = "missing"]
                     ELSE IF users[user_id].business_type = "admin"
                             /\ user_id = dl.th[p].current_user
                     THEN [@ EXCEPT !.pc = "done", !.result = "self"]
                     ELSE IF users[user_id].business_type = "admin" /\ LastAdmin(users)
                     THEN [@ EXCEPT !.pc = "done", !.result = "last_admin"]
                     ELSE [@ EXCEPT !.pc = "acquire"]]
    /\ UNCHANGED users
    /\ UNCHANGED BesidesUsers

\* safe_delete_user: with _deletion_lock: the id is in _deletion_locks and
\* the call returns, or the id is entered with the time
DuAcquire(p) ==
    /\ dl.th[p].pc = "acquire"
    /\ LET user_id == dl.th[p].user_id
       IN  IF user_id \in DOMAIN dl.locks
           THEN dl' = [dl EXCEPT !.th[p].pc = "done", !.th[p].result = "locked"]
           ELSE dl' = [dl EXCEPT !.locks = @ @@ (user_id :> dl.now),
                                 !.th[p].held = TRUE,
                                 !.th[p].pc = "get"]
    /\ UNCHANGED users
    /\ UNCHANGED BesidesUsers

\* user = User.query.get(user_id); if not user: return
DuGet(p) ==
    /\ dl.th[p].pc = "get"
    /\ dl' = [dl EXCEPT !.th[p] =
                 IF dl.th[p].user_id \in DOMAIN users
                 THEN [@ EXCEPT !.pc = "delete"]
                 ELSE [@ EXCEPT !.pc = "finally", !.result = "missing"]]
    /\ UNCHANGED users
    /\ UNCHANGED BesidesUsers

\* the batch deletion, db.session.delete(user) and the commit; a database
\* error, and the row gone meanwhile, roll back
DuDelete(p) ==
    /\ dl.th[p].pc = "delete"
    /\ LET user_id == dl.th[p].user_id
       IN  \/ /\ user_id \in DOMAIN users
              /\ users' = Pop(users, user_id)
              /\ dl' = [dl EXCEPT !.th[p].pc = "finally", !.th[p].result = "deleted"]
           \/ /\ UNCHANGED users
              /\ dl' = [dl EXCEPT !.th[p].pc = "finally", !.th[p].result = "error"]
    /\ UNCHANGED BesidesUsers

\* finally: with _deletion_lock: _deletion_locks.pop(user_id, None)
DuFinally(p) ==
    /\ dl.th[p].pc = "finally"
    /\ dl' = [dl EXCEPT !.locks = Pop(@, dl.th[p].user_id),
                        !.th[p].held = FALSE,
                        !.th[p].pc = "done"]
    /\ UNCHANGED users
    /\ UNCHANGED BesidesUsers

\* the redirect; the worker takes the next request
DuReturn(p) ==
    /\ dl.th[p].pc = "done"
    /\ dl' = [dl EXCEPT !.th[p] = DuIdle]
    /\ UNCHANGED users
    /\ UNCHANGED BesidesUsers

\* a minute passes
DuTick ==
    /\ dl.now < MaxMinute
    /\ dl' = [dl EXCEPT !.now = @ + 1]
    /\ UNCHANGED users
    /\ UNCHANGED BesidesUsers

InitDelete ==
    /\ InitTable({}, NumReq, {FALSE})

NextDelete ==
    \/ \E p \in Req, actor \in UserIds, user_id \in UserIds : DuBegin(p, actor, user_id)
    \/ \E p \in Req : DuCleanup(p)
    \/ \E p \in Req : DuStatus(p)
    \/ \E p \in Req : DuCheck(p)
    \/ \E p \in Req : DuAcquire(p)
    \/ \E p \in Req : DuGet(p)
    \/ \E p \in Req : DuDelete(p)
    \/ \E p \in Req : DuFinally(p)
    \/ \E p \in Req : DuReturn(p)
    \/ DuTick

\* concurrent deletion of users
SpecDelete == InitDelete /\ [][NextDelete]_vars

----------------------------------------------------------------------------
(* Order._get_quote_model() and Order.reset_cache_stats(), one bytecode-level
   access of the shared class attributes per step.  cls._cache_stats[k] += 1
   loads the dict and the value, then stores into the dict it has loaded. *)

Others == <<today, ciLike, orders, nextId, gen, u, req, issued, quotes, nt,
            sq, suppliers, cu, bk, users, dl>>

\* time.time() - import_start_time
Elapsed == {"0.0", "0.02"}

\* a first check that never finds the cache filled
IsCached_Never(cache) == FALSE

\* cls._quote_model_cache is not None
IsCached(cache) == cache # NoRef

\* a second check that is not made
StillEmpty_Unchecked(cache) == TRUE

\* with the lock held: cls._quote_model_cache is None
StillEmpty(cache) == cache = NoRef

\* the call; c0, h0, m0 are history: the cache and the counters as a caller
\* reads them before the call
QCall(t) ==
    /\ qc.th[t].pc = "idle"
    /\ qc.calls < MaxCalls
    /\ qc' = [qc EXCEPT !.th[t] = [ThIdle EXCEPT !.pc = "check1",
                                                 !.c0 = qc.cache,
                                                 !.h0 = qc.hits,
                                                 !.m0 = qc.misses,
                                                 !.post_reset = qc.fresh],
                        !.calls = @ + 1,
                        !.fresh = FALSE]
    /\ UNCHANGED Others

\* if cls._quote_model_cache is not None
QCheck1(t) ==
    /\ qc.th[t].pc = "check1"
    /\ qc' = [qc EXCEPT !.th[t].pc = IF IsCached(qc.cache) THEN "hit_load"
                                     ELSE "miss_load"]
    /\ UNCHANGED Others

\* the load of cls._cache_stats[k] += 1
QLoad(t) ==
    /\ qc.th[t].pc \in {"hit_load", "miss_load", "hit2_load"}
    /\ qc' = [qc EXCEPT !.th[t].tmp = IF qc.th[t].pc = "miss_load" THEN qc.misses
                                      ELSE qc.hits,
                        !.th[t].d = qc.stats_id,
                        !.th[t].pc = IF qc.th[t].pc = "hit_load" THEN "hit_store"
                                     ELSE IF qc.th[t].pc = "miss_load" THEN "miss_store"
                                     ELSE "hit2_store"]
    /\ UNCHANGED Others

\* the store of cls._cache_stats[k] += 1: into the dict that was loaded, which
\* is no longer the one the class holds when a reset came between
QStore(t) ==
    /\ qc.th[t].pc \in {"hit_store", "miss_store", "hit2_store"}
    /\ LET cur == qc.th[t].d = qc.stats_id
           v == qc.th[t].tmp + 1
           nxt == IF qc.th[t].pc = "hit_store" THEN "ret"
                  ELSE IF qc.th[t].pc = "miss_store" THEN "lock"
                  ELSE "unlock"
       IN  qc' = [qc EXCEPT !.hits = IF cur /\ qc.th[t].pc # "miss_store" THEN v ELSE @,
                            !.misses = IF cur /\ qc.th[t].pc = "miss_store" THEN v ELSE @,
                            !.th[t].pc = nxt]
    /\ UNCHANGED Others

\* with cls._quote_import_lock
QLock(t) ==
    /\ qc.th[t].pc = "lock"
    /\ qc.lock = 0
    /\ qc' = [qc EXCEPT !.lock = t, !.th[t].pc = "check2"]
    /\ UNCHANGED Others

\* the second check, with the lock held
QCheck2(t) ==
    /\ qc.th[t].pc = "check2"
    /\ qc' = [qc EXCEPT !.th[t].pc = IF StillEmpty(qc.cache) THEN "import"
                                     ELSE "hit2_load"]
    /\ UNCHANGED Others

\* from .quote import Quote; the cache and import_time are set, or the import
\* fails, the with statement releases the lock and the exception is raised;
\* the reference is told apart by the execution of the import that made it
QImport(t) ==
    /\ qc.th[t].pc = "import"
    /\ \/ \E e \in Elapsed :
             qc' = [qc EXCEPT !.cache = qc.imports + 1,
                              !.import_time = e,
                              !.imports = @ + 1,
                              !.populates = @ + 1,
                              !.th[t].pc = "unlock"]
       \/ qc' = [qc EXCEPT !.imports = @ + 1,
                           !.lock = 0,
                           !.th[t].pc = "raised"]
    /\ UNCHANGED Others

\* the end of the with statement
QUnlock(t) ==
    /\ qc.th[t].pc = "unlock"
    /\ qc' = [qc EXCEPT !.lock = 0, !.th[t].pc = "ret"]
    /\ UNCHANGED Others

\* return cls._quote_model_cache
QRet(t) ==
    /\ qc.th[t].pc = "ret"
    /\ qc' = [qc EXCEPT !.th[t].ret = qc.cache, !.th[t].pc = "done"]
    /\ UNCHANGED Others

\* the caller goes on
QDone(t) ==
    /\ qc.th[t].pc \in {"done", "raised"}
    /\ qc' = [qc EXCEPT !.th[t] = ThIdle]
    /\ UNCHANGED Others

\* Order.reset_cache_stats(): a new dict is bound to _cache_stats
QReset(t) ==
    /\ qc.th[t].pc = "idle"
    /\ qc.resets < MaxResets
    /\ qc' = [qc EXCEPT !.hits = 0, !.misses = 0, !.import_time = "None",
                        !.stats_id = @ + 1,
                        !.resets = @ + 1,
                        !.fresh = TRUE]
    /\ UNCHANGED Others

QStep(t) ==
    \/ QCall(t)
    \/ QCheck1(t)
    \/ QLoad(t)
    \/ QStore(t)
    \/ QLock(t)
    \/ QCheck2(t)
    \/ QImport(t)
    \/ QUnlock(t)
    \/ QRet(t)
    \/ QDone(t)
    \/ QReset(t)

InitCache == InitTable({}, 0, {FALSE})

NextCache == \E t \in Thr : QStep(t)

\* the cache used by several threads
SpecCache == InitCache /\ [][NextCache]_vars

NextCacheSeq == QStep(1)

\* the cache used by one caller, access after access
SpecCacheSeq == InitCache /\ [][NextCacheSeq]_vars

----------------------------------------------------------------------------
(* Shapes of order numbers, stated without the allocator's helpers *)

\* the value of three decimal digit characters
Value3(a, b, c) ==
    LET v(ch) == CHOOSE k \in 0..9 : DigitChars[k + 1] = ch
    IN  100 * v(a) + 10 * v(b) + v(c)

\* RX + the six characters d + three decimal digits
IsNumberOfDay(no, d) ==
    /\ Len(no) = 11
    /\ no[1] = "R" /\ no[2] = "X"
    /\ \A i \in 1..6 : no[2 + i] = d[i]
    /\ \A i \in 9..11 : no[i] \in DecimalDigits

SeqOf(no) == Value3(no[9], no[10], no[11])

\* the number RX + d + the sequence n written with three digits
NumberOf(d, n) ==
    <<"R", "X">> \o d \o <<DigitChars[(n \div 100) + 1],
                            DigitChars[((n \div 10) % 10) + 1],
                            DigitChars[(n % 10) + 1]>>

\* the largest sequence among the numbers of day d in a table, 0 when none
MaxSeqOfDay(tbl, d) ==
    LET S == {SeqOf(no) : no \in {x \in OrderNos(tbl) : IsNumberOfDay(x, d)}}
    IN  IF S = {} THEN 0 ELSE CHOOSE m \in S : \A k \in S : k <= m

\* yymmdd of day t
DayString(t) == <<"2", "4", "0", "3">> \o <<DigitChars[((14 + t) \div 10) + 1],
                                             DigitChars[((14 + t) % 10) + 1]>>

----------------------------------------------------------------------------
(* C1: when N creation requests run concurrently on the same day against one
   datastore (insert with a placeholder, scan, max + 1, assign, commit), all N
   obtain an order number and the N numbers are pairwise distinct: no request
   is turned down for a duplicate number. *)
C1_AllObtainDistinctNumbers ==
    /\ \A p \in Req : req[p].error # "IntegrityError"
    /\ \A p, q \in Req :
          (p # q /\ req[p].pc = "committed" /\ req[q].pc = "committed")
             => req[p].order_no # req[q].order_no

----------------------------------------------------------------------------
(* C2: in every reachable state no two persisted orders have the same
   order_no: a commit that would store a duplicate is rejected by the
   uniqueness constraint and the creating transaction is rolled back, leaving
   no row of that request. *)
C2_OrderNoUnique ==
    /\ \A i, j \in DOMAIN orders :
          i # j => orders[i].order_no # orders[j].order_no
    /\ \A p \in Req :
          req[p].error = "IntegrityError" =>
             /\ req[p].pc = "failed"
             /\ req[p].id \notin DOMAIN orders

\* a request was rejected at commit for a number another order holds
C2_Witness ==
    \E p \in Req :
       /\ req[p].pc = "failed"
       /\ req[p].error = "IntegrityError"
       /\ req[p].id # None
       /\ \E i \in DOMAIN orders : orders[i].order_no = req[p].order_no

----------------------------------------------------------------------------
(* C4: for all orders created on the same calendar day, the sequence suffixes
   are strictly increasing in creation order and contain no duplicates: every
   number committed exceeds every number committed before it for that day. *)
C4_StrictlyIncreasing ==
    [][ \A p \in Req :
          (req[p].pc = "numbered" /\ req'[p].pc = "committed") =>
             LET d == SubSeq(req[p].order_no, 3, 8)
             IN  d \in DOMAIN issued => SeqOf(req[p].order_no) > issued[d] ]_vars

----------------------------------------------------------------------------
(* C5: when an order with today's date and sequence 999 exists, an allocation
   for that day fails: no number is returned and the creating transaction is
   rolled back, so no order row and no supplier association is committed; when
   the largest existing sequence is 998 the allocation succeeds and returns
   999. *)
C5_DailyCap ==
    /\ [](\A p \in Req :
             req[p].error = "ValueError" =>
                /\ req[p].pc = "failed"
                /\ req[p].id \notin DOMAIN orders
                /\ startswith(req[p].order_no, <<"T", "E", "M", "P">>))
    /\ [][ \A p \in Req :
             (req[p].pc = "flushed" /\ req'[p] # req[p]) =>
                LET d == DayString(today)
                    m == MaxSeqOfDay(orders, d)
                IN  /\ m = 999 => /\ req'[p].pc = "failed"
                                  /\ req'[p].error = "ValueError"
                                  /\ orders' = orders
                    /\ m = 998 => /\ req'[p].pc = "numbered"
                                  /\ req'[p].order_no = NumberOf(d, 999)
                    /\ m < 999 => req'[p].pc = "numbered" ]_vars

\* one request was turned down at 999 after another had been given 999
C5_Witness ==
    \E p, q \in Req :
       /\ req[p].pc = "failed" /\ req[p].error = "ValueError"
       /\ req[q].pc = "committed"
       /\ req[q].order_no = NumberOf(DayString(1), 999)
       /\ req[q].id \in DOMAIN orders
       /\ orders[req[q].id].suppliers = req[q].sel
       /\ req[p].id \notin DOMAIN orders

----------------------------------------------------------------------------
(* C3: with no concurrent writer, the allocated sequence is 1 + the largest
   trailing 3-digit value among the existing numbers that are 11 characters
   long, start with RX + today's yymmdd and end in three digits; other days'
   and malformed numbers are ignored; with no such number the result is 001,
   and after 001 it is 002. *)
C3_SequenceIsMaxPlusOne ==
    [][ (gen' # gen /\ gen'.kind # "none" /\ gen'.date_str # <<>>) =>
          LET d == DayString(today)
              m == MaxSeqOfDay(orders, d)
          IN  /\ m < 999 => /\ gen'.kind = "ok"
                            /\ gen'.order_no = NumberOf(d, m + 1)
              /\ m = 0 => gen'.order_no = <<"R", "X">> \o d \o <<"0", "0", "1">>
              /\ OrderNos(orders) = {<<"R", "X">> \o d \o <<"0", "0", "1">>}
                   => gen'.order_no = <<"R", "X">> \o d \o <<"0", "0", "2">>
              /\ m = 999 => gen'.kind = "ValueError" ]_vars

\* 002 is allocated beside 001 and a lower-case number the scan has ignored
C3_Witness ==
    /\ gen.kind = "ok"
    /\ gen.order_no = NumberOf(DayString(1), 2)
    /\ OrderNos(orders) = {NumberOf(DayString(1), 1),
                           <<"r", "x">> \o DayString(1) \o <<"0", "0", "7">>}
    /\ ciLike

----------------------------------------------------------------------------
(* C6: generate_unique_order_no ends after at most max_retries (5)
   scan-and-compute cycles; it returns a candidate only when the exact-match
   check found no order with that number; on a detected collision it waits and
   goes round again; after 5 unsuccessful cycles it raises instead of
   returning a number.  Termination is stated by a measure: every step of a
   running call strictly decreases the number of steps it can still take. *)
C6_StepsLeft(a) ==
    IF a.pc = "scan" THEN 2 * (5 - a.cycles)
    ELSE IF a.pc = "check" THEN 2 * (5 - a.cycles) + 1
    ELSE 0

C6_BoundedRetry ==
    /\ [](/\ u.cycles <= 5
          /\ u.pc = "raised" => u.cycles = 5
          /\ u.pc = "returned" => u.cycles \in 1..5)
    /\ [][ /\ (u'.pc = "returned" /\ u.pc # "returned") =>
                 /\ u.pc = "check"
                 /\ u.order_no \notin OrderNos(orders)
                 /\ u'.order_no = u.order_no
           /\ (u.pc = "check" /\ u' # u /\ u.order_no \in OrderNos(orders)) =>
                 /\ Len(u'.waits) = Len(u.waits) + 1
                 /\ u'.pc = IF u.cycles < 5 THEN "scan" ELSE "raised"
           /\ (u'.pc = "raised" /\ u.pc # "raised") => u'.order_no = u.order_no
           /\ (u.pc \in {"scan", "check"} /\ u' # u) =>
                 /\ C6_StepsLeft(u) > 0
                 /\ C6_StepsLeft(u') < C6_StepsLeft(u)
         ]_vars

\* five collisions in a row: the call has raised after five cycles and five waits
C6_Witness ==
    /\ u.pc = "raised"
    /\ u.cycles = 5
    /\ u.waits = <<1, 2, 3, 4, 5>>

----------------------------------------------------------------------------
(* C7: every number the allocator returns (generate_order_no and
   generate_unique_order_no) has exactly 11 characters: RX, the yymmdd of the
   day it was generated on, and a zero-padded 3-digit sequence in 001..999. *)
C7_NumberFormat ==
    /\ [](/\ gen.kind = "ok" =>
               /\ \E t \in 1..MaxDay : IsNumberOfDay(gen.order_no, DayString(t))
               /\ SeqOf(gen.order_no) \in 1..999
          /\ u.pc \in {"check", "returned"} =>
               /\ \E t \in 1..MaxDay : IsNumberOfDay(u.order_no, DayString(t))
               /\ SeqOf(u.order_no) \in 1..999)
    /\ [][ /\ (gen' # gen /\ gen'.kind = "ok") =>
                 IsNumberOfDay(gen'.order_no, DayString(today))
           /\ (u.pc = "scan" /\ u'.pc = "check") =>
                 IsNumberOfDay(u'.order_no, DayString(today))
           /\ (u.pc = "check" /\ u'.pc = "returned") => u'.order_no = u.order_no
         ]_vars

\* generate_order_no has returned 999 of the first day and
\* generate_unique_order_no 001 of the second
C7_Witness ==
    /\ gen.kind = "ok"
    /\ u.pc = "returned"
    /\ gen.order_no = NumberOf(DayString(1), 999)
    /\ u.order_no = NumberOf(DayString(2), 1)

----------------------------------------------------------------------------
(* C8: once the final RX number of an order is committed, no later operation
   on the order (edit, add_suppliers, select_supplier, reset_selection, quote
   submission, supplier notification) changes its order_no: in every step, an
   order that is in the table before and after keeps its number, and the
   number is an RX number, never a placeholder. *)
C8_OrderNoNeverChanges ==
    /\ [](\A id \in DOMAIN orders :
             \E t \in 1..MaxDay : IsNumberOfDay(orders[id].order_no, DayString(t)))
    /\ [][ \A id \in (DOMAIN orders) \cap (DOMAIN orders') :
             orders'[id].order_no = orders[id].order_no ]_vars

\* an order that was edited, given a second supplier, quoted for, completed
\* and notified about still has the number it was created with
C8_Witness ==
    \E id \in DOMAIN orders :
       /\ id # 1
       /\ orders[id].order_no = NumberOf(DayString(1), 2)
       /\ orders[id].goods = 1
       /\ orders[id].suppliers = {1, 2}
       /\ orders[id].status = "completed"
       /\ orders[id].selected_supplier_id = 2
       /\ HasQuote(quotes, id, 2)
       /\ nt.pc = "returned"
       /\ nt.order_no = orders[id].order_no
       /\ orders[1].status = "active"
       /\ orders[1].goods = 1

----------------------------------------------------------------------------
(* C9: for any supplier list (webhook URL missing, empty, malformed or
   unreachable; access code missing) and any outcome of each attempt (HTTP
   200, another status, timeout, connection error, any other exception), a
   call of notify_suppliers on an existing order never raises and completes by
   returning the pair (success_count, failed supplier names); it completes
   because every step of a running call strictly decreases the number of steps
   it can still take. *)
C9_StepsLeft(a) ==
    IF a.pc = "for" THEN 6 * (Len(a.suppliers) + 1 - a.i) + 1
    ELSE IF a.pc = "try" THEN 6 * (Len(a.suppliers) - a.i) + 1 + (5 - 2 * a.attempt)
    ELSE IF a.pc = "sleep" THEN 6 * (Len(a.suppliers) - a.i) + 1 + (4 - 2 * a.attempt)
    ELSE 0

C9_NeverRaises ==
    /\ [](/\ nt.pc # "raised"
          /\ nt.pc = "returned" =>
               /\ nt.success_count \in 0..Len(nt.suppliers)
               /\ Len(nt.failed_suppliers) \in 0..Len(nt.suppliers)
               /\ \A k \in 1..Len(nt.failed_suppliers) :
                     \E j \in 1..Len(nt.suppliers) :
                        nt.failed_suppliers[k] = nt.suppliers[j].name)
    /\ [][ (nt.pc \in {"for", "try", "sleep"} /\ nt' # nt) =>
              /\ nt'.pc \in {"for", "try", "sleep", "returned"}
              /\ C9_StepsLeft(nt) > 0
              /\ C9_StepsLeft(nt') < C9_StepsLeft(nt) ]_vars

\* a call has returned although one supplier's URL was malformed and the
\* other's attempts ended in an exception outside the requests library
C9_Witness ==
    /\ nt.pc = "returned"
    /\ Len(nt.suppliers) = 2
    /\ nt.suppliers[1].webhook_url = "not-a-url"
    /\ nt.suppliers[1].access_code = "code"
    /\ nt.suppliers[2].webhook_url = "https://hook"
    /\ nt.last = "TypeError"
    /\ nt.success_count = 0
    /\ nt.failed_suppliers = <<nt.suppliers[1].name, nt.suppliers[2].name>>

----------------------------------------------------------------------------
(* C10: in the result of notify_suppliers every supplier that has a webhook
   URL is counted exactly once, in success_count or in the failed list, and a
   supplier without a webhook URL in neither: success_count plus the length of
   the failed list is the number of input suppliers that have a webhook URL. *)
C10_Times(i, positions) ==
    Cardinality({k \in 1..Len(positions) : positions[k] = i})

C10_CountedOnce ==
    nt.pc \in {"for", "returned"} =>
       LET done == 1..(nt.i - 1)
           hooked == {j \in done : ~Falsy(nt.suppliers[j].webhook_url)}
       IN  /\ nt.success_count + Len(nt.failed_suppliers) = Cardinality(hooked)
           /\ nt.success_count = Len(nt.counted_ok)
           /\ Len(nt.failed_suppliers) = Len(nt.counted_failed)
           /\ \A k \in 1..Len(nt.counted_failed) :
                 nt.failed_suppliers[k] = nt.suppliers[nt.counted_failed[k]].name
           /\ \A j \in done :
                 C10_Times(j, nt.counted_ok) + C10_Times(j, nt.counted_failed)
                    = IF j \in hooked THEN 1 ELSE 0
           /\ nt.pc = "returned" => nt.i = Len(nt.suppliers) + 1

\* a supplier without webhook was skipped and one that failed three times is
\* in the failed list once
C10_Witness ==
    /\ nt.pc = "returned"
    /\ Len(nt.suppliers) = 2
    /\ nt.suppliers[1].webhook_url = ""
    /\ nt.suppliers[2].webhook_url = "https://hook"
    /\ nt.suppliers[2].access_code = "code"
    /\ nt.last = "500"
    /\ nt.sleeps = <<1, 2>>
    /\ nt.success_count = 0
    /\ nt.failed_suppliers = <<nt.suppliers[2].name>>

----------------------------------------------------------------------------
(* C11: for each supplier with a webhook the notifier makes at most 3
   attempts and stops at the first HTTP 200: an endpoint that answers 500
   every time is attempted exactly 3 times and then recorded as failed, and
   one that succeeds on the 2nd attempt is attempted exactly 2 times and
   recorded as a success. *)
C11_RetryBound ==
    /\ [](nt.pc \in {"for", "try", "sleep"} =>
             /\ Len(nt.outs) <= 3
             /\ nt.pc = "try" => Len(nt.outs) = nt.attempt
             /\ nt.pc = "sleep" => Len(nt.outs) = nt.attempt + 1
             /\ \A k \in 1..(Len(nt.outs) - 1) : nt.outs[k] # "200")
    /\ [][ /\ (nt.pc = "try" /\ nt'.pc = "for") =>
                LET o == nt'.outs
                    n == Len(o)
                    name == nt.suppliers[nt.i].name
                IN  /\ n = Len(nt.outs) + 1
                    /\ n <= 3
                    /\ o[n] = "200" =>
                          /\ nt'.success_count = nt.success_count + 1
                          /\ nt'.failed_suppliers = nt.failed_suppliers
                    /\ o[n] \notin {"200", "NoAccessCode"} =>
                          /\ n = 3
                          /\ nt'.success_count = nt.success_count
                          /\ nt'.failed_suppliers = Append(nt.failed_suppliers, name)
                    /\ (\A k \in 1..n : o[k] = "500") => n = 3
                    /\ (n >= 2 /\ o[2] = "200") => n = 2
           /\ (nt.pc = "try" /\ nt'.pc = "sleep") =>
                /\ nt'.last # "200"
                /\ Len(nt'.outs) < 3
                /\ nt'.success_count = nt.success_count
                /\ nt'.failed_suppliers = nt.failed_suppliers
         ]_vars

\* the first endpoint has succeeded on its 2nd attempt (one wait), the second
\* has answered 500 three times (two waits) and is the one failed supplier
C11_Witness ==
    /\ nt.pc = "for"
    /\ Len(nt.suppliers) = 2
    /\ nt.i = 3
    /\ nt.outs = <<"500", "500", "500">>
    /\ nt.sleeps = <<1, 1, 2>>
    /\ nt.success_count = 1
    /\ nt.counted_ok = <<1>>
    /\ nt.failed_suppliers = <<nt.suppliers[2].name>>

----------------------------------------------------------------------------
(* C12: in order creation the first webhook attempt happens only after the
   order's transaction has committed, and whatever the notification ends in
   (every webhook failing, or an exception leaving the notifier) the committed
   order and its supplier associations stay persisted and unchanged and the
   creation is reported as successful. *)
C12_Persisted(p) ==
    /\ req[p].id \in DOMAIN orders
    /\ orders[req[p].id].order_no = req[p].order_no
    /\ orders[req[p].id].suppliers = req[p].sel
    /\ \E t \in 1..MaxDay : IsNumberOfDay(req[p].order_no, DayString(t))

C12_NotifyAfterCommit ==
    /\ [](/\ nt.pc # "idle" =>
               \E p \in Req : /\ req[p].pc \in {"notifying", "succeeded"}
                              /\ nt.order_no = req[p].order_no
                              /\ C12_Persisted(p)
          /\ \A p \in Req :
               req[p].pc \in {"notifying", "succeeded"} =>
                  /\ C12_Persisted(p)
                  /\ req[p].error = "none")
    /\ [][ /\ nt' # nt => (orders' = orders /\ quotes' = quotes)
           /\ \A p \in Req :
                (req[p].pc = "notifying" /\ req'[p] # req[p]) =>
                   /\ nt.pc \in {"returned", "raised"}
                   /\ req'[p].pc = "succeeded"
                   /\ orders' = orders
         ]_vars

\* an exception has left the notifier before any webhook was tried, and the
\* creation is reported as successful with the order and its supplier stored
C12_Witness ==
    \E p \in Req :
       /\ req[p].pc = "succeeded"
       /\ nt.pc = "raised"
       /\ nt.order_no = req[p].order_no
       /\ req[p].sel = {1}
       /\ orders[req[p].id].order_no = req[p].order_no
       /\ orders[req[p].id].suppliers = {1}

----------------------------------------------------------------------------
(* C13: after the first successful access to the Quote-model cache, every
   later access returns the identical reference, and each later access made
   one after the other adds exactly one to the hit count and leaves the miss
   count as it was. *)
C13_CachedAccess ==
    /\ [](\A t \in Thr :
             (qc.th[t].pc = "done" /\ qc.th[t].c0 # NoRef) =>
                /\ qc.th[t].ret = qc.th[t].c0
                /\ qc.hits = qc.th[t].h0 + 1
                /\ qc.misses = qc.th[t].m0)
    /\ [][ qc.cache # NoRef => qc'.cache = qc.cache ]_vars

\* the second access has returned what the first had cached: one miss, one hit
C13_Witness ==
    /\ qc.th[1].pc = "done"
    /\ qc.th[1].c0 # NoRef
    /\ qc.th[1].ret = qc.th[1].c0
    /\ qc.calls = 2
    /\ qc.resets = 0
    /\ qc.hits = 1
    /\ qc.misses = 1

----------------------------------------------------------------------------
(* C14: the cache reset operation clears the counters (hits, misses, import
   duration) and forces the next access to be a miss: the first access after
   a reset adds one to the miss count and none to the hit count. *)
C14_ResetForcesMiss ==
    /\ [][ qc'.resets # qc.resets =>
              /\ qc'.hits = 0
              /\ qc'.misses = 0
              /\ qc'.import_time \in {"None", "0.0"} ]_vars
    /\ [](\A t \in Thr :
             (qc.th[t].pc = "done" /\ qc.th[t].post_reset) =>
                /\ qc.misses = qc.th[t].m0 + 1
                /\ qc.hits = qc.th[t].h0)

----------------------------------------------------------------------------
(* C15: under any interleaving of concurrent first accesses to an empty
   cache the cache is looked up and populated at most once (a caller that
   takes the lock after another caller has populated the cache skips the
   lookup), the cached reference never changes after it is set, and all
   callers return the same reference. *)
C15_PopulatedOnce ==
    /\ [](/\ qc.populates <= 1
          /\ \A t \in Thr :
                qc.th[t].pc = "done" => /\ qc.th[t].ret # NoRef
                                        /\ qc.th[t].ret = qc.cache
          /\ \A t \in Thr : qc.th[t].pc = "import" => /\ qc.lock = t
                                                      /\ qc.cache = NoRef)
    /\ [][ /\ qc.cache # NoRef => qc'.cache = qc.cache
           /\ \A t \in Thr :
                (qc.th[t].pc = "check2" /\ qc.cache # NoRef
                   /\ qc'.th[t].pc # "check2") =>
                   /\ qc'.th[t].pc = "hit2_load"
                   /\ qc'.imports = qc.imports
         ]_vars

\* two callers have found the cache empty; one has populated it, the other
\* has skipped the lookup under the lock, and both have returned the reference
C15_Witness ==
    /\ qc.th[1].pc = "done"
    /\ qc.th[2].pc = "done"
    /\ qc.th[1].c0 = NoRef
    /\ qc.th[2].c0 = NoRef
    /\ qc.misses = 2
    /\ qc.hits = 1
    /\ qc.populates = 1
    /\ qc.imports = 1
    /\ qc.th[1].ret = qc.th[2].ret
    /\ qc.th[1].ret # NoRef

\* C16: the status of an order follows the lifecycle. A new row is active;
\* a row goes from active to completed only in a step that records a
\* selected supplier and a positive selected price; a row goes from
\* completed to active only when it had a selected supplier, and the step
\* clears the selected supplier and price; the status changes in no other
\* way, so a reset of an order that is not completed changes nothing. In
\* every state an active order has no selection and a completed one has one.
C16_Lifecycle ==
    /\ [](\A id \in DOMAIN orders :
            /\ orders[id].status \in {"active", "completed"}
            /\ orders[id].status = "active" =>
                  /\ orders[id].selected_supplier_id = None
                  /\ orders[id].selected_price = None
            /\ orders[id].status = "completed" =>
                  /\ orders[id].selected_supplier_id \in DOMAIN SupplierTable
                  /\ orders[id].selected_price > 0)
    /\ [][\A id \in DOMAIN orders' :
            IF id \notin DOMAIN orders
            THEN orders'[id].status = "active"
            ELSE LET a == orders[id]
                     b == orders'[id]
                 IN  a.status # b.status =>
                        \/ /\ a.status = "active" /\ b.status = "completed"
                           /\ b.selected_supplier_id # None
                           /\ HasQuote(quotes, id, b.selected_supplier_id)
                           /\ b.selected_price > 0
                        \/ /\ a.status = "completed" /\ b.status = "active"
                           /\ a.selected_supplier_id # None
                           /\ b.selected_supplier_id = None
                           /\ b.selected_price = None]_vars

\* an order completed by a selection, next to an order created meanwhile
C16_Witness ==
    \E id \in DOMAIN orders, id2 \in DOMAIN orders :
        /\ orders[id].status = "completed"
        /\ orders[id].selected_supplier_id # None
        /\ orders[id].selected_price > 0
        /\ id2 > id
        /\ orders[id2].status = "active"

\* C17: a cancellation of an order that is not completed leaves the order
\* in the table with status cancelled, and a cancellation of a completed
\* order changes nothing: no step takes a row out of the table, and a row
\* that a step takes out of the open statuses is cancelled afterwards.
C17_CancelSetsCancelled ==
    [][\A id \in DOMAIN orders :
          /\ id \in DOMAIN orders'
          /\ (orders[id].status # "completed" /\ orders'[id].status # orders[id].status
                /\ orders'[id].status # "completed")
                => orders'[id].status = "cancelled"]_vars

\* C18: after any sequence of submit_quote requests, two requests of one
\* supplier for one order interleaved included, the table quotes holds at
\* most one quote per order and supplier.
C18_OneQuotePerPair ==
    \A q1 \in quotes, q2 \in quotes :
        (q1.order_id = q2.order_id /\ q1.supplier_id = q2.supplier_id) => q1.id = q2.id

\* C19: a supplier that has at least one quote is not deleted: every step
\* leaves its row as it is, leaves each of its quotes in table quotes and
\* leaves it associated with the orders it was associated with; a supplier
\* that a step takes out of the table had no quote.
C19_DeleteKeepsQuoted ==
    [][\A sid \in DOMAIN suppliers :
          IF SupplierQuotes(quotes, sid) # {}
          THEN /\ sid \in DOMAIN suppliers'
               /\ suppliers'[sid] = suppliers[sid]
               /\ \A q \in SupplierQuotes(quotes, sid) :
                     \E r \in quotes' : /\ r.id = q.id
                                        /\ r.order_id = q.order_id
                                        /\ r.supplier_id = q.supplier_id
               /\ \A id \in DOMAIN orders :
                     sid \in orders[id].suppliers =>
                        id \in DOMAIN orders' /\ sid \in orders'[id].suppliers
          ELSE sid \notin DOMAIN suppliers' =>
                  /\ quotes' = quotes
                  /\ \A id \in DOMAIN orders' : sid \notin orders'[id].suppliers]_vars

\* a supplier with a quote is still there after a supplier without quotes
\* was deleted
C19_Witness ==
    /\ \E sid \in DOMAIN suppliers : SupplierQuotes(quotes, sid) # {}
    /\ \E sid \in 1..2 :
          /\ sid \notin DOMAIN suppliers
          /\ \A id \in DOMAIN orders : sid \notin orders[id].suppliers

\* C20: the rows a filtered query returned. For an authenticated user who is
\* no admin and has a business type, every row has the user's business type;
\* for an admin the rows are all rows of the table; for an unauthenticated
\* user or one without a business type there is no row. And a step that
\* leaves the suppliers of a user's partition as they are leaves the result
\* of the user's filtered query as it is.
C20_PartitionFilter ==
    /\ [](cu.pc = "done" =>
            IF ~cu.user.is_authenticated \/ Falsy(cu.user.business_type)
            THEN cu.result = {}
            ELSE IF cu.user.business_type = "admin"
            THEN cu.result = DOMAIN cu.rows
            ELSE /\ cu.result \subseteq DOMAIN cu.rows
                 /\ \A i \in cu.result : cu.rows[i] = cu.user.business_type)
    /\ [][\A user \in Users :
            (/\ user.is_authenticated
             /\ user.business_type \in BusinessTypes
             /\ \A i \in DOMAIN suppliers \cup DOMAIN suppliers' :
                   LET mine(tbl) == i \in DOMAIN tbl
                                    /\ tbl[i].business_type = user.business_type
                   IN  (mine(suppliers) \/ mine(suppliers')) =>
                          /\ i \in DOMAIN suppliers /\ i \in DOMAIN suppliers'
                          /\ suppliers'[i] = suppliers[i])
            => business_type_filter(user, suppliers')
                  = business_type_filter(user, suppliers)]_vars

\* a user of one partition was shown rows of a table that has rows of the
\* other partition, and the table has changed since
C20_Witness ==
    /\ cu.pc = "done"
    /\ cu.model_class = "Supplier"
    /\ cu.user.is_authenticated
    /\ cu.user.business_type \in BusinessTypes
    /\ cu.result # {}
    /\ \E i \in DOMAIN cu.rows : cu.rows[i] # cu.user.business_type
    /\ DOMAIN suppliers # DOMAIN cu.rows
    /\ cu.result \subseteq DOMAIN suppliers

\* C21: two create_backup calls of one manager in the same second of the
\* clock, both on a valid database file, return different paths, and the
\* file of the earlier one still has the content it was written with.
C21_DistinctBackups ==
    \A i \in 1..Len(bk.calls), j \in 1..Len(bk.calls) :
        (/\ i < j
         /\ bk.calls[i].at = bk.calls[j].at
         /\ bk.calls[i].ok /\ bk.calls[j].ok)
        => /\ bk.calls[i].ret # bk.calls[j].ret
           /\ [name |-> bk.calls[i].ret, content |-> bk.calls[i].content] \in bk.files

\* C22: the notifier waits only after a failed attempt that is not the 3rd,
\* and the wait after the k-th attempt is k half seconds; there is no wait
\* after a success or after the 3rd attempt. So the waits of the supplier at
\* hand are 0.5 s, 1.0 s, ... one per attempt already made: a supplier that
\* fails 3 times has had the two waits 0.5 s and 1.0 s, and one that
\* succeeds at once has had none.
C22_Backoff ==
    /\ [](nt.pc \in {"try", "sleep"} =>
             /\ Len(nt.sleeps) >= nt.attempt
             /\ \A k \in 1..nt.attempt :
                   nt.sleeps[Len(nt.sleeps) - nt.attempt + k] = k)
    /\ [][(nt.pc # "idle" /\ nt'.pc # "idle") =>
            /\ nt'.sleeps # nt.sleeps =>
                  /\ nt.pc = "sleep" /\ nt'.pc = "try"
                  /\ nt.last # "200"
                  /\ Len(nt.outs) = nt.attempt + 1
                  /\ Len(nt.outs) < 3
                  /\ nt'.sleeps = Append(nt.sleeps, Len(nt.outs))
                  /\ nt'.attempt = nt.attempt + 1
            /\ nt.pc = "sleep" => nt'.sleeps # nt.sleeps
            /\ (nt.pc = "for" /\ nt'.pc = "try") => nt'.attempt = 0
            /\ (nt.pc = "try" /\ nt'.pc = "for") =>
                  /\ nt'.attempt = nt.attempt
                  /\ Len(nt'.outs) = nt.attempt + 1
                  /\ (nt'.last = "200" /\ Len(nt'.outs) = 1) => nt.attempt = 0
                  /\ (nt'.last # "200" /\ Len(nt'.outs) = 3) =>
                        /\ nt.attempt = 2
                        /\ SubSeq(nt.sleeps, Len(nt.sleeps) - 1, Len(nt.sleeps)) = <<1, 2>>
            /\ (nt.pc = "try" /\ nt'.pc = "sleep") =>
                  /\ nt'.last # "200"
                  /\ nt.attempt < 2
         ]_vars

\* the first endpoint has failed 3 times (waits of 0.5 s and 1.0 s), the
\* second has succeeded at once (no wait)
C22_Witness ==
    /\ nt.pc = "for"
    /\ Len(nt.suppliers) = 2
    /\ nt.i = 3
    /\ nt.outs = <<"200">>
    /\ nt.sleeps = <<1, 2>>
    /\ nt.counted_failed = <<1>>
    /\ nt.counted_ok = <<2>>

\* C23: no committed order carries a TEMP placeholder: every row of table
\* orders has a final number RX + day + 3 digits; a row is added only by the
\* commit of a request that has its final number, and a request whose
\* number generation failed adds no row.
C23_NoTempCommitted ==
    /\ [](\A id \in DOMAIN orders :
             /\ Len(orders[id].order_no) = expected_length
             /\ SubSeq(orders[id].order_no, 1, 2) = RX
             /\ SubSeq(orders[id].order_no, 1, 4) # TEMP)
    /\ [][/\ \A id \in DOMAIN orders' \ DOMAIN orders :
                \E p \in Req :
                   /\ req[p].pc = "numbered" /\ req'[p].pc = "committed"
                   /\ req[p].id = id
                   /\ SubSeq(req[p].order_no, 1, 2) = RX
                   /\ orders'[id].order_no = req[p].order_no
          /\ \A p \in Req :
                (req[p].pc = "flushed" /\ req'[p].pc = "failed") =>
                   /\ orders' = orders
                   /\ req[p].id \notin DOMAIN orders]_vars

\* one request has committed its order while the number generation of the
\* other has failed and its transaction is rolled back
C23_Witness ==
    \E p \in Req, q \in Req :
        /\ req[p].pc = "committed"
        /\ req[p].id \in DOMAIN orders
        /\ req[q].pc = "failed"
        /\ req[q].error = "ValueError"
        /\ SubSeq(req[q].order_no, 1, 4) = TEMP
        /\ req[q].id \notin DOMAIN orders

\* C24: total_requests of get_cache_stats, hits + misses, is the number of
\* completed _get_quote_model calls since the last reset. Stated for the
\* states where it is least in doubt: no reset yet, no import has failed,
\* and no call is under way, so that every call made has completed.
C24_TotalIsCalls ==
    (/\ qc.resets = 0
     /\ qc.imports = qc.populates
     /\ \A t \in Thr : qc.th[t].pc = "idle")
    => qc.hits + qc.misses = qc.calls

\* C25: a quote is created or its price is changed only by a step that
\* starts with the order active and the quote's supplier associated with
\* the order, and the new price is greater than 0 and not above the highest
\* price; so the quotes of a completed order stay as they are, and a
\* submission with a missing, non-positive or too high price changes no
\* quote.
C25_QuoteOnlyWhenOpen ==
    [][/\ \A q \in quotes' :
            (q \notin quotes) =>
               /\ q.order_id \in DOMAIN orders
               /\ orders[q.order_id].status = "active"
               /\ q.supplier_id \in orders[q.order_id].suppliers
               /\ q.price > 0
               /\ q.price <= MaxPrice
       /\ \A id \in DOMAIN orders :
            orders[id].status = "completed" =>
               {q \in quotes' : q.order_id = id} = {q \in quotes : q.order_id = id}
      ]_vars

\* a completed order with the quotes of two suppliers, one of them updated
\* to another price before the selection
C25_Witness ==
    \E id \in DOMAIN orders :
        /\ orders[id].status = "completed"
        /\ \E q1 \in quotes, q2 \in quotes :
              /\ q1.order_id = id /\ q2.order_id = id
              /\ q1.id = 1 /\ q2.id = 2
              /\ q1.supplier_id = 2 /\ q2.supplier_id = 1
              /\ q1.price = 7 /\ q2.price = 5

\* C26: for any user id at most one execution of safe_delete_user is past
\* the acquisition of the deletion lock (it holds the lock entry of the id).
C26_OneDeletionPerUser ==
    \A p \in Req, q \in Req :
        (dl.th[p].held /\ dl.th[q].held /\ dl.th[p].user_id = dl.th[q].user_id)
        => p = q

\* C27: at least one user with business_type admin remains.
C27_AdminRemains == admin_count(users) >= 1

\* C29: every supplier associated with an order is a row of table suppliers
\* with the business type of the order.
C29_SuppliersOfPartition ==
    \A id \in DOMAIN orders : \A sid \in orders[id].suppliers :
        /\ sid \in DOMAIN suppliers
        /\ suppliers[sid].business_type = orders[id].business_type

\* C28: an order is completed exactly when it has a selected supplier, a
\* completed order has a selected price above zero, an active order has
\* neither a selected supplier nor a selected price, and a step that records
\* a selected supplier records one that has a quote for the order.
C28_CompletedIffSelected ==
    /\ [](\A id \in DOMAIN orders :
            /\ orders[id].status = "completed" <=> orders[id].selected_supplier_id # None
            /\ orders[id].status = "completed" => orders[id].selected_price > 0
            /\ orders[id].status = "active" => orders[id].selected_price = None)
    /\ [][\A id \in DOMAIN orders \cap DOMAIN orders' :
            (/\ orders'[id].selected_supplier_id # None
             /\ orders'[id] # orders[id])
            => \E q \in quotes : /\ q.order_id = id
                                /\ q.supplier_id = orders'[id].selected_supplier_id]_vars

C28_Witness ==
    \E id \in DOMAIN orders :
        /\ orders[id].status = "completed"
        /\ \E q \in quotes : /\ q.order_id = id
                            /\ q.supplier_id = orders[id].selected_supplier_id
        /\ Cardinality(orders[id].suppliers) >= 2
        /\ orders[id].goods # 0

\* the sequence numbers of the day among the rows of table orders
C30_SeqsToday ==
    {int(Last3(orders[i].order_no)) :
        i \in {j \in DOMAIN orders :
                 /\ Len(orders[j].order_no) = 11
                 /\ SubSeq(orders[j].order_no, 1, 8) = RX \o strftime(today)}}

\* the highest of them, 0 without any
C30_MaxToday ==
    IF C30_SeqsToday = {} THEN 0
    ELSE CHOOSE m \in C30_SeqsToday : \A n \in C30_SeqsToday : n <= m

\* C30: a creation request gets the number one above the highest sequence of
\* the day among the rows persisted when it allocates, whatever was issued
\* and deleted before: the number of a deleted highest row is returned
\* again, and a number below the persisted highest is never returned. The
\* allocation fails with a ValueError only above the daily limit.
C30_AllocFromPersisted ==
    [][\A p \in Req :
         req[p].pc = "flushed" =>
            /\ req'[p].pc = "numbered" =>
                  /\ req'[p].order_no = RX \o strftime(today) \o Format03d(C30_MaxToday + 1)
                  /\ \A n \in C30_SeqsToday : int(Last3(req'[p].order_no)) > n
            /\ (req'[p].pc = "failed" /\ req'[p].error = "ValueError") =>
                  C30_MaxToday + 1 > MaxSeqNo]_vars

\* a request has been given a number that had been committed before, and
\* has committed it again
C30_Witness ==
    \E p \in Req :
        /\ req[p].pc = "committed"
        /\ req[p].issued_before
        /\ \E id \in DOMAIN orders : id = req[p].id /\ orders[id].order_no = req[p].order_no

====
